---- MODULE Spec2Model ----
(***************************************************************************)
(* Price-monitoring task pipeline: TaskOrchestrator.processQuery, the      *)
(* validation guardrails, the MockIntentParser and the BrowserAgent        *)
(* (deterministic strategy), modelled from the JavaScript sources.         *)
(*                                                                         *)
(* Encoding conventions                                                    *)
(*   - a nullable string is a string, null being NULL; "" is the empty     *)
(*     string (both are falsy in JavaScript);                              *)
(*   - a nullable number or list is an option: << >> is null, <<v>> is v;  *)
(*   - confidence is kept in hundredths (0.6 is 60).                       *)
(***************************************************************************)
EXTENDS Integers, Sequences, FiniteSets, TLC

VARIABLES
    config,       \* process configuration: dryRun, useComputerUse, hasApiKey
    pc,           \* position of processQuery
    task,         \* the Task object created by createTask
    activeTasks,  \* TaskOrchestrator.activeTasks (set of registered task ids)
    userInput,    \* the argument of processQuery
    execResult,   \* executionResult of processQuery (option)
    agent,        \* the BrowserAgent's executeTask frame
    hist,         \* observation log of the calls made for the task
    response,     \* the TaskResponse returned by processQuery (option)
    gIn,          \* function harness: the input under evaluation
    gOut,         \* function harness: results of the functions applied to gIn
    cu,           \* the ComputerUseAgent's executeTask frame and browser session
    srv           \* the server process: concurrent requests, result files, agents

vars == <<config, pc, task, activeTasks, userInput, execResult,
          agent, hist, response, gIn, gOut, cu, srv>>

orchVars == <<config, pc, task, activeTasks, userInput, execResult,
              agent, hist, response>>

guardVars == <<gIn, gOut>>

-----------------------------------------------------------------------------
(* Bounds of the model *)

MaxSites == 2        \* longest sources.sites list explored

(* Program constants *)

MinConfidence == 60      \* config.minConfidence = 0.6
ModerateConfidence == 70 \* validateConfidence warns below 0.7
PriceCeiling == 100000   \* validateConstraints warns above 100000
MockConfBrand == 75      \* MockIntentParser: confidence with a brand
MockConfNoBrand == 50    \* MockIntentParser: confidence without a brand
DefaultConfidence == 50  \* IntentParser.normalizeResult default
DefaultRateLimit == 5000 \* config.defaultRateLimit

NULL == "NULL"

Falsy(s) == s \in {NULL, ""}

IsNull(o) == o = << >>
Some(v) == <<v>>
Val(o) == o[1]

(* TaskStatus enumeration *)
TaskStatus ==
    {"OK", "NOT_FOUND", "CAPTCHA", "BLOCKED", "VALIDATION_FAILED",
     "LAYOUT_CHANGED", "TIMEOUT", "PENDING", "IN_PROGRESS",
     "CLARIFICATION_NEEDED"}

(* config.sites.sites: the known-site table loaded from configs/sites.yaml *)
SiteConfigs ==
    [ google  |-> [name |-> "Google Shopping", price_selector |-> FALSE,
                   rate_limit |-> <<5000>>],
      zalando |-> [name |-> "Zalando", price_selector |-> TRUE,
                   rate_limit |-> <<3000>>],
      asos    |-> [name |-> "ASOS", price_selector |-> FALSE,
                   rate_limit |-> << >>] ]

KnownSites == DOMAIN SiteConfigs

(* String.prototype.toLowerCase on the site names of the model *)
toLowerCase(s) ==
    CASE s = "Zalando" -> "zalando"
      [] s = "ASOS"    -> "asos"
      [] OTHER         -> s

-----------------------------------------------------------------------------
(* Validation guardrails (validation/guardrails.js) *)

createValidationResult(valid, errors, warnings) ==
    [valid |-> valid, errors |-> errors, warnings |-> warnings,
     status |-> IF valid THEN NULL ELSE "VALIDATION_FAILED"]

validateProduct(product) ==
    [errors |->
        IF Falsy(product.brand) /\ Falsy(product.model)
        THEN <<"Either brand or model must be specified">> ELSE << >>,
     warnings |->
        IF Falsy(product.brand) /\ Falsy(product.model) /\ Falsy(product.category)
        THEN <<"Search may be very broad">> ELSE << >>]

validateConstraints(constraints) ==
    IF IsNull(constraints.max_price)
    THEN [errors |-> << >>, warnings |-> << >>]
    ELSE [errors |->
            IF Val(constraints.max_price) <= 0
            THEN <<"max_price must be a positive number">> ELSE << >>,
          warnings |->
            IF Val(constraints.max_price) > PriceCeiling
            THEN <<"Very high price threshold detected">> ELSE << >>]

SitesEmpty(sources) ==
    IsNull(sources.sites) \/ Len(Val(sources.sites)) = 0

SitesOrEmpty(sources) ==
    IF IsNull(sources.sites) THEN << >> ELSE Val(sources.sites)

unknownSitesOf(sources) ==
    SelectSeq(SitesOrEmpty(sources), LAMBDA site : toLowerCase(site) \notin KnownSites)

validateSources(sources) ==
    [errors |->
        (IF Falsy(sources.mode)
         THEN <<"Search mode must be specified">> ELSE << >>)
        \o
        (IF sources.mode = "specific_sites" /\ SitesEmpty(sources)
         THEN <<"At least one site must be specified">> ELSE << >>),
     warnings |->
        IF sources.mode = "specific_sites" /\ Len(unknownSitesOf(sources)) > 0
        THEN <<"Unknown sites will use generic extraction">> ELSE << >>]

validateConfidence(confidence) ==
    IF confidence < 0 \/ confidence > 100
    THEN [errors |-> <<"Confidence must be a number between 0 and 1">>,
          warnings |-> << >>]
    ELSE IF confidence < MinConfidence
    THEN [errors |-> <<"Confidence score is below minimum threshold">>,
          warnings |-> << >>]
    ELSE IF confidence < ModerateConfidence
    THEN [errors |-> << >>, warnings |-> <<"Moderate confidence in parsing">>]
    ELSE [errors |-> << >>, warnings |-> << >>]

(* a validateTask that returns at the first failing rule *)
validateTask_shortCircuit(parsedTask) ==
    LET typeErrors == IF parsedTask.task_type # "price_monitoring"
                      THEN <<"Unsupported task type">> ELSE << >>
        p == validateProduct(parsedTask.product)
        c == validateConstraints(parsedTask.constraints)
        s == validateSources(parsedTask.sources)
        f == validateConfidence(parsedTask.confidence)
        first == IF Len(typeErrors) > 0 THEN typeErrors
                 ELSE IF Len(p.errors) > 0 THEN p.errors
                 ELSE IF Len(c.errors) > 0 THEN c.errors
                 ELSE IF Len(s.errors) > 0 THEN s.errors
                 ELSE f.errors
    IN  createValidationResult(Len(first) = 0, first,
            p.warnings \o c.warnings \o s.warnings \o f.warnings)

validateTask(parsedTask) ==
    LET typeErrors == IF parsedTask.task_type # "price_monitoring"
                      THEN <<"Unsupported task type">> ELSE << >>
        p == validateProduct(parsedTask.product)
        c == validateConstraints(parsedTask.constraints)
        s == validateSources(parsedTask.sources)
        f == validateConfidence(parsedTask.confidence)
        allErrors == typeErrors \o p.errors \o c.errors \o s.errors \o f.errors
        allWarnings == p.warnings \o c.warnings \o s.warnings \o f.warnings
    IN  createValidationResult(Len(allErrors) = 0, allErrors, allWarnings)

(* a needsClarification without the missing-sites question *)
needsClarification_noSites(parsedTask) ==
    LET questions ==
          (IF parsedTask.confidence < MinConfidence
           THEN <<"Could you provide more details about the product?">> ELSE << >>)
          \o
          (IF Falsy(parsedTask.product.brand) /\ Falsy(parsedTask.product.model)
           THEN <<"What brand or specific product model are you looking for?">>
           ELSE << >>)
    IN  [needsClarification |-> Len(questions) > 0, questions |-> questions]

(* a needsClarification that forgets the confidence threshold *)
needsClarification_noConfidence(parsedTask) ==
    LET questions ==
          (IF Falsy(parsedTask.product.brand) /\ Falsy(parsedTask.product.model)
           THEN <<"What brand or specific product model are you looking for?">>
           ELSE << >>)
          \o
          (IF parsedTask.sources.mode = "specific_sites" /\ SitesEmpty(parsedTask.sources)
           THEN <<"Which websites should I check for prices?">> ELSE << >>)
    IN  [needsClarification |-> Len(questions) > 0, questions |-> questions]

needsClarification(parsedTask) ==
    LET questions ==
          (IF parsedTask.confidence < MinConfidence
           THEN <<"Could you provide more details about the product?">> ELSE << >>)
          \o
          (IF Falsy(parsedTask.product.brand) /\ Falsy(parsedTask.product.model)
           THEN <<"What brand or specific product model are you looking for?">>
           ELSE << >>)
          \o
          (IF parsedTask.sources.mode = "specific_sites" /\ SitesEmpty(parsedTask.sources)
           THEN <<"Which websites should I check for prices?">> ELSE << >>)
    IN  [needsClarification |-> Len(questions) > 0, questions |-> questions]

-----------------------------------------------------------------------------
(* Inputs *)

SiteNames == {"zalando", "mystery"}

RECURSIVE SeqsUpTo(_, _)
SeqsUpTo(S, n) ==
    IF n = 0 THEN {<< >>}
    ELSE LET shorter == SeqsUpTo(S, n - 1)
         IN  shorter \cup {Append(s, x) : s \in {t \in shorter : Len(t) = n - 1}, x \in S}

SiteLists == SeqsUpTo(SiteNames, MaxSites)

SiteListOpts == {<< >>} \cup {Some(l) : l \in SiteLists}

(* Parsed tasks handed to the guardrail functions on their own *)
GuardInputs ==
    [task_type   : {"price_monitoring", "price_alert"},
     product     : [brand : {NULL, "", "Nike"}, model : {NULL, "Samba"},
                    category : {NULL, "sneakers"}],
     constraints : [max_price : {<< >>, <<0>>, <<100>>, <<200000>>}],
     sources     : [mode : {NULL, "google", "specific_sites", "direct_url"},
                    sites : SiteListOpts \cup {Some(<<"Zalando">>)}],
     confidence  : {-10, 59, 60, 100, 150}]

(* userInput, described by what MockIntentParser's patterns find in it *)
Queries ==
    { [text |-> "Find Nike sneakers under 100", brand |-> "nike", model |-> NULL,
       category |-> "sneakers", price |-> <<100>>, siteMatches |-> << >>,
       directUrl |-> NULL, directSite |-> NULL],
      [text |-> "find something cheap", brand |-> NULL, model |-> NULL,
       category |-> NULL, price |-> << >>, siteMatches |-> << >>,
       directUrl |-> NULL, directSite |-> NULL],
      [text |-> "Samba black on Zalando", brand |-> NULL, model |-> "Samba",
       category |-> NULL, price |-> << >>, siteMatches |-> << <<"zalando">> >>,
       directUrl |-> NULL, directSite |-> NULL],
      [text |-> "Nike Samba under 0", brand |-> "nike", model |-> "Samba",
       category |-> NULL, price |-> <<0>>, siteMatches |-> << >>,
       directUrl |-> NULL, directSite |-> NULL],
      [text |-> "Adidas shoes at https://www.mystery.com", brand |-> "adidas",
       model |-> NULL, category |-> "sneakers", price |-> << >>,
       siteMatches |-> << >>, directUrl |-> "https://www.mystery.com",
       directSite |-> "mystery"] }

(* normalizeBrand on the brands of the model *)
normalizeBrand(input) ==
    CASE Falsy(input)     -> NULL
      [] input = "nike"   -> "Nike"
      [] input = "adidas" -> "Adidas"
      [] OTHER            -> input

(* MockIntentParser.parse *)
MockIntentParser_parse(q) ==
    [success |-> TRUE,
     parsedTask |->
       [task_type   |-> "price_monitoring",
        product     |-> [brand |-> normalizeBrand(q.brand), model |-> q.model,
                         category |-> q.category],
        constraints |-> [max_price |-> q.price],
        sources     |-> [mode |-> IF q.directUrl # NULL THEN "direct_url"
                                  ELSE IF ~IsNull(q.siteMatches)
                                          /\ Len(Val(q.siteMatches)) > 0
                                  THEN "specific_sites" ELSE "google",
                         sites |-> IF q.directUrl # NULL THEN Some(<<q.directSite>>)
                                   ELSE q.siteMatches],
        confidence  |-> IF q.brand # NULL THEN MockConfBrand ELSE MockConfNoBrand]]

(* What IntentParser.parse can return: a task that passed ParsedTaskSchema     *)
(* (normalizeResult clamps confidence into [0,1]), or success = false.        *)
SchemaValidTasks ==
    [task_type   : {"price_monitoring"},
     product     : [brand : {NULL, "Nike"}, model : {NULL},
                    category : {"sneakers"}],
     constraints : [max_price : {<< >>, <<100>>}],
     sources     : [mode : {"google", "specific_sites"}, sites : SiteListOpts],
     confidence  : {DefaultConfidence, MinConfidence}]

IntentParser_parse ==
    {[success |-> FALSE, parsedTask |-> << >>]}
      \cup {[success |-> TRUE, parsedTask |-> pt] : pt \in SchemaValidTasks}

(* createIntentParser *)
UsesMockParser(cfg) == cfg.dryRun \/ ~cfg.hasApiKey

ParseOutcomes(cfg, q) ==
    IF UsesMockParser(cfg) THEN {MockIntentParser_parse(q)} ELSE IntentParser_parse

-----------------------------------------------------------------------------
(* Task Orchestrator (TaskOrchestrator in agents/orchestrator.js) *)

TaskId == "task-1"

TerminalStatuses ==
    {"VALIDATION_FAILED", "CLARIFICATION_NEEDED", "OK", "NOT_FOUND", "CAPTCHA",
     "BLOCKED", "TIMEOUT"}

ExecutionStatuses == {"OK", "NOT_FOUND", "CAPTCHA", "BLOCKED", "TIMEOUT"}

NoTask ==
    [id |-> NULL, status |-> NULL, originalQuery |-> NULL, parsedTask |-> << >>,
     results |-> << >>, errors |-> << >>, completedAt |-> FALSE]

NoAgent ==
    [strategy |-> NULL, phase |-> "none", idx |-> 0, results |-> << >>,
     errors |-> << >>, log |-> << >>]

NoHist ==
    [parseCalls |-> 0, clarifyCalls |-> 0, guardCalls |-> 0, execCalls |-> << >>,
     sinkCalls |-> 0, caught |-> << >>, execOutcome |-> NULL, sink |-> << >>]

(* a response that reports task.errors under errors whatever the status *)
formatTaskResponse_errorsAlways(t) ==
    [task_id |-> t.id,
     status |-> t.status,
     parsed |-> t.parsedTask,
     results |-> IF t.status = "OK" /\ Len(t.results) > 0
                 THEN Some(t.results) ELSE << >>,
     summary |-> IF t.status = "OK" /\ Len(t.results) > 0
                 THEN Some([total_results |-> Len(t.results),
                            matching_criteria |->
                              Len(SelectSeq(t.results, LAMBDA r : r.meets_criteria))])
                 ELSE << >>,
     clarification_needed |->
        IF Len(t.errors) > 0 /\ t.status = "CLARIFICATION_NEEDED"
        THEN Some(t.errors) ELSE << >>,
     errors |-> IF Len(t.errors) > 0 THEN Some(t.errors) ELSE << >>,
     timestamp |-> t.completedAt]

(* TaskOrchestrator.formatTaskResponse *)
formatTaskResponse(t) ==
    [task_id |-> t.id,
     status |-> t.status,
     parsed |-> t.parsedTask,
     results |-> IF t.status = "OK" /\ Len(t.results) > 0
                 THEN Some(t.results) ELSE << >>,
     summary |-> IF t.status = "OK" /\ Len(t.results) > 0
                 THEN Some([total_results |-> Len(t.results),
                            matching_criteria |->
                              Len(SelectSeq(t.results, LAMBDA r : r.meets_criteria))])
                 ELSE << >>,
     clarification_needed |->
        IF Len(t.errors) > 0 /\ t.status = "CLARIFICATION_NEEDED"
        THEN Some(t.errors) ELSE << >>,
     errors |->
        IF Len(t.errors) > 0 /\ t.status # "CLARIFICATION_NEEDED"
        THEN Some(t.errors) ELSE << >>,
     timestamp |-> t.completedAt]

(* TaskOrchestrator.finalizeTask, applied to the task as the caller left it *)
finalizeTask(t) ==
    LET done == [t EXCEPT !.completedAt = TRUE]
    IN  /\ task' = done
        /\ activeTasks' = activeTasks \ {t.id}
        /\ response' = Some(formatTaskResponse(done))
        /\ pc' = "done"

(* a catch block that rethrows: the task is never finalized *)
catchBlock_rethrow(t, message) ==
    /\ hist' = [hist EXCEPT !.caught = Append(@, message)]
    /\ task' = t
    /\ pc' = "crashed"
    /\ UNCHANGED <<activeTasks, response>>

(* the catch block of processQuery *)
catchBlock(t, message) ==
    /\ hist' = [hist EXCEPT !.caught = Append(@, message)]
    /\ finalizeTask([t EXCEPT !.status = "TIMEOUT", !.errors = Append(@, message)])

(* createTask, called by processQuery *)
ProcessQuery ==
    /\ pc = "idle"
    /\ \E q \in Queries :
         /\ userInput' = q
         /\ task' = [id |-> TaskId, status |-> "PENDING", originalQuery |-> q.text,
                     parsedTask |-> << >>, results |-> << >>, errors |-> << >>,
                     completedAt |-> FALSE]
    /\ activeTasks' = activeTasks \cup {TaskId}
    /\ pc' = "created"
    /\ UNCHANGED <<config, execResult, agent, hist, response, guardVars, cu, srv>>

(* Phase 1: status IN_PROGRESS, intentParser.parse is called *)
StartParsing ==
    /\ pc = "created"
    /\ task' = [task EXCEPT !.status = "IN_PROGRESS"]
    /\ hist' = [hist EXCEPT !.parseCalls = @ + 1]
    /\ pc' = "parsing"
    /\ UNCHANGED <<config, activeTasks, userInput, execResult, agent, response,
                   guardVars, cu, srv>>

(* intentParser.parse throws *)
ParseThrows ==
    /\ pc = "parsing"
    /\ catchBlock(task, "parse failed unexpectedly")
    /\ UNCHANGED <<config, userInput, execResult, agent, guardVars, cu, srv>>

(* parseResult.success is false *)
ParseFails ==
    /\ pc = "parsing"
    /\ \E r \in ParseOutcomes(config, userInput) :
         /\ ~r.success
         /\ finalizeTask([task EXCEPT !.status = "VALIDATION_FAILED",
                                      !.errors = Append(@, "Intent parsing failed")])
    /\ UNCHANGED <<config, userInput, execResult, agent, hist, guardVars, cu, srv>>

(* Truthiness of a nullable number: null and 0 are falsy *)
Truthy(o) == ~IsNull(o) /\ Val(o) # 0

(* createComputerUseAgent / createBrowserAgent *)
SelectStrategy(cfg) ==
    IF cfg.useComputerUse
    THEN (IF cfg.dryRun \/ ~cfg.hasApiKey THEN "MockComputerUse" ELSE "ComputerUse")
    ELSE (IF cfg.dryRun THEN "MockBrowser" ELSE "Browser")

(* the continuation of processQuery once parse returned success: clarification *)
(* check, validation, strategy selection and the call of executeTask          *)
AfterParse_Clarification(pt) ==
    LET t == [task EXCEPT !.parsedTask = Some(pt)]
        clarification == needsClarification(pt)
    IN  /\ clarification.needsClarification
        /\ hist' = [hist EXCEPT !.clarifyCalls = @ + 1]
        /\ finalizeTask([t EXCEPT !.status = "CLARIFICATION_NEEDED",
                                  !.errors = clarification.questions])
        /\ UNCHANGED <<agent>>

AfterParse_Invalid(pt) ==
    LET t == [task EXCEPT !.parsedTask = Some(pt)]
        clarification == needsClarification(pt)
        validation == validateTask(pt)
    IN  /\ ~clarification.needsClarification
        /\ ~validation.valid
        /\ hist' = [hist EXCEPT !.clarifyCalls = @ + 1, !.guardCalls = @ + 1]
        /\ finalizeTask([t EXCEPT !.status = "VALIDATION_FAILED",
                                  !.errors = validation.errors])
        /\ UNCHANGED <<agent>>

(* a pipeline that executes without looking at the guard's verdict *)
AfterParse_Execute_ignoreGuard(pt) ==
    LET t == [task EXCEPT !.parsedTask = Some(pt)]
        strategy == SelectStrategy(config)
    IN  /\ hist' = [hist EXCEPT !.clarifyCalls = @ + 1, !.guardCalls = @ + 1,
                                !.execCalls = Append(@, strategy)]
        /\ task' = t
        /\ agent' = [NoAgent EXCEPT !.strategy = strategy, !.phase = "init", !.idx = 1]
        /\ pc' = "executing"
        /\ UNCHANGED <<activeTasks, response>>

AfterParse_Execute(pt) ==
    LET t == [task EXCEPT !.parsedTask = Some(pt)]
        clarification == needsClarification(pt)
        validation == validateTask(pt)
        strategy == SelectStrategy(config)
    IN  /\ ~clarification.needsClarification
        /\ validation.valid
        /\ hist' = [hist EXCEPT !.clarifyCalls = @ + 1, !.guardCalls = @ + 1,
                                !.execCalls = Append(@, strategy)]
        /\ task' = t
        /\ agent' = [NoAgent EXCEPT !.strategy = strategy, !.phase = "init", !.idx = 1]
        /\ pc' = "executing"
        /\ UNCHANGED <<activeTasks, response>>

ParseOk_Clarification ==
    /\ pc = "parsing"
    /\ \E r \in ParseOutcomes(config, userInput) :
         r.success /\ AfterParse_Clarification(r.parsedTask)
    /\ UNCHANGED <<config, userInput, execResult, guardVars, cu, srv>>

ParseOk_Invalid ==
    /\ pc = "parsing"
    /\ \E r \in ParseOutcomes(config, userInput) :
         r.success /\ AfterParse_Invalid(r.parsedTask)
    /\ UNCHANGED <<config, userInput, execResult, guardVars, cu, srv>>

ParseOk_Execute ==
    /\ pc = "parsing"
    /\ \E r \in ParseOutcomes(config, userInput) :
         r.success /\ AfterParse_Execute(r.parsedTask)
    /\ UNCHANGED <<config, userInput, execResult, guardVars, cu, srv>>

ParsedTaskOf(t) == Val(t.parsedTask)

(* an executeTask call returns r to processQuery *)
Returns(r) ==
    /\ execResult' = Some(r)
    /\ hist' = [hist EXCEPT !.execOutcome = r.status]
    /\ pc' = "exec_returned"

(* an executeTask call throws *)
Throws ==
    /\ execResult' = << >>
    /\ hist' = [hist EXCEPT !.execOutcome = "THROWN"]
    /\ pc' = "exec_threw"

-----------------------------------------------------------------------------
(* Execution strategies as processQuery sees them *)

MaxPrice(pt) == pt.constraints.max_price

(* An ExtractionResult; source_url stands for the page the result came from *)
Result(name, price, meets, err, url) ==
    [product_name |-> name, current_price |-> price, meets_criteria |-> meets,
     error |-> err, source_url |-> url]

(* What ComputerUseAgent.executeTask hands back: candidates carry a price *)
Candidates ==
    { << >>,
      << [product_name |-> "Samba", price |-> 50, source_url |-> "shop-a"] >>,
      << [product_name |-> "Samba", price |-> 50, source_url |-> "shop-a"],
         [product_name |-> "Samba OG", price |-> 150, source_url |-> "shop-b"] >> }

ComputerUseResults ==
    [success : BOOLEAN, results : Candidates]

(* processQuery line 121: cuResult.success ? TaskStatus.OK : TaskStatus.TIMEOUT *)
computerUseStatus(success) == IF success THEN "OK" ELSE "TIMEOUT"

(* processQuery lines 119-135: Computer Use result mapped to the standard format *)
MapComputerUseResult(cuResult, pt) ==
    [status |-> computerUseStatus(cuResult.success),
     results |->
        [i \in 1..Len(cuResult.results) |->
            LET r == cuResult.results[i]
            IN  Result(r.product_name, r.price,
                       IF Truthy(MaxPrice(pt)) THEN r.price <= Val(MaxPrice(pt))
                       ELSE TRUE,
                       NULL, r.source_url)],
     errors |-> IF cuResult.success THEN << >>
                ELSE <<"Computer Use execution failed">>]

(* ComputerUseAgent.executeTask, seen from the orchestrator *)
ComputerUse_Execute ==
    /\ pc = "executing"
    /\ agent.strategy = "ComputerUse"
    /\ \/ \E cuResult \in ComputerUseResults :
            Returns(MapComputerUseResult(cuResult, ParsedTaskOf(task)))
       \/ Throws
    /\ UNCHANGED <<config, task, activeTasks, userInput, agent, response, guardVars, cu, srv>>

(* MockComputerUseAgent.executeTask: the default mock product, price 99.99 *)
MockComputerUse_Execute ==
    /\ pc = "executing"
    /\ agent.strategy = "MockComputerUse"
    /\ Returns(MapComputerUseResult(
          [success |-> TRUE,
           results |-> << [product_name |-> "Mock Product", price |-> 99,
                           source_url |-> "https://example.com"] >>],
          ParsedTaskOf(task)))
    /\ UNCHANGED <<config, task, activeTasks, userInput, agent, response, guardVars, cu, srv>>

(* MockBrowserAgent.executeTask: one result per site at 70%..120% of the base price *)
MockBrowser_Execute ==
    /\ pc = "executing"
    /\ agent.strategy = "MockBrowser"
    /\ LET pt == ParsedTaskOf(task)
           sites == IF pt.sources.mode = "google" THEN <<"Google Shopping">>
                    ELSE IF IsNull(pt.sources.sites) THEN <<"unknown">>
                    ELSE Val(pt.sources.sites)
           basePrice == IF Truthy(MaxPrice(pt)) THEN Val(MaxPrice(pt)) ELSE 100
       IN  \E factor \in [1..Len(sites) -> {7, 12}] :
             Returns([status |-> "OK",
                      results |->
                        [i \in 1..Len(sites) |->
                           LET mockPrice == (basePrice * factor[i]) \div 10
                           IN  Result("mock", mockPrice,
                                      IF Truthy(MaxPrice(pt))
                                      THEN mockPrice <= Val(MaxPrice(pt)) ELSE TRUE,
                                      NULL, sites[i])],
                      errors |-> << >>])
    /\ UNCHANGED <<config, task, activeTasks, userInput, agent, response, guardVars, cu, srv>>

-----------------------------------------------------------------------------
(* processQuery after execution: lines 142-164 *)

AfterExecution(r) == [task EXCEPT !.status = r.status, !.results = r.results,
                                  !.errors = @ \o r.errors]

(* a pipeline that calls writeResults whatever the results list holds *)
ExecDone_Write_always ==
    /\ pc = "exec_returned"
    /\ LET t == AfterExecution(Val(execResult))
       IN  /\ task' = t
           /\ hist' = [hist EXCEPT !.sinkCalls = @ + 1,
                                   !.sink = Some([status |-> t.status,
                                                  completedAt |-> t.completedAt])]
    /\ pc' = "writing"
    /\ UNCHANGED <<config, activeTasks, userInput, execResult, agent, response,
                   guardVars, cu, srv>>

(* Phase 5: results are non-empty, writeResults(task) is called *)
ExecDone_Write ==
    /\ pc = "exec_returned"
    /\ LET t == AfterExecution(Val(execResult))
       IN  /\ Len(t.results) > 0
           /\ task' = t
           /\ hist' = [hist EXCEPT !.sinkCalls = @ + 1,
                                   !.sink = Some([status |-> t.status,
                                                  completedAt |-> t.completedAt])]
    /\ pc' = "writing"
    /\ UNCHANGED <<config, activeTasks, userInput, execResult, agent, response,
                   guardVars, cu, srv>>

(* no results: the task is finalized without the Result Sink *)
ExecDone_Finalize ==
    /\ pc = "exec_returned"
    /\ LET t == AfterExecution(Val(execResult))
       IN  /\ Len(t.results) = 0
           /\ finalizeTask(t)
    /\ UNCHANGED <<config, userInput, execResult, agent, hist, guardVars, cu, srv>>

(* executeTask threw: the top-level catch *)
ExecThrew ==
    /\ pc = "exec_threw"
    /\ catchBlock(task, "execution failed")
    /\ UNCHANGED <<config, userInput, execResult, agent, guardVars, cu, srv>>

(* writeResults returned *)
WriteOk ==
    /\ pc = "writing"
    /\ finalizeTask(task)
    /\ UNCHANGED <<config, userInput, execResult, agent, hist, guardVars, cu, srv>>

(* writeResults rethrew a file-system error: the top-level catch *)
WriteThrows ==
    /\ pc = "writing"
    /\ catchBlock(task, "write failed")
    /\ UNCHANGED <<config, userInput, execResult, agent, guardVars, cu, srv>>

-----------------------------------------------------------------------------
(* Deterministic strategy: BrowserAgent (agents/browser-agent.js) *)

(* What page.goto and the page it loads can do *)
NavEnvs ==
    {[goto |-> "timeout", http |-> 0, captcha |-> FALSE],
     [goto |-> "error", http |-> 0, captcha |-> FALSE]}
      \cup [goto : {"response"}, http : {200, 403}, captcha : BOOLEAN]
      \cup {[goto |-> "response", http |-> 429, captcha |-> FALSE]}

ProductNavEnvs ==
    {[goto |-> "error", http |-> 0, captcha |-> FALSE],
     [goto |-> "response", http |-> 200, captcha |-> FALSE],
     [goto |-> "response", http |-> 403, captcha |-> FALSE]}

(* What the three price tiers find on the page (null, or the parsed amount) *)
PriceTiers ==
    {[selector |-> << >>,  heuristic |-> << >>,   regex |-> << >>],
     [selector |-> <<50>>, heuristic |-> <<150>>, regex |-> << >>],
     [selector |-> <<0>>,  heuristic |-> <<150>>, regex |-> << >>],
     [selector |-> << >>,  heuristic |-> <<50>>,  regex |-> <<150>>],
     [selector |-> << >>,  heuristic |-> << >>,   regex |-> <<150>>],
     [selector |-> << >>,  heuristic |-> << >>,   regex |-> <<0>>]}

PageEnvs ==
    [nav : NavEnvs, link : BOOLEAN, productNav : ProductNavEnvs,
     prices : PriceTiers, screenshotThrows : BOOLEAN]

(* BrowserAgent.navigateTo *)
navigateTo(nav) ==
    IF nav.goto = "error"
    THEN [thrown |-> TRUE, success |-> FALSE, status |-> NULL]
    ELSE IF nav.goto = "timeout"
    THEN [thrown |-> FALSE, success |-> FALSE, status |-> "TIMEOUT"]
    ELSE IF nav.captcha
    THEN [thrown |-> FALSE, success |-> FALSE, status |-> "CAPTCHA"]
    ELSE IF nav.http = 403 \/ nav.http = 429
    THEN [thrown |-> FALSE, success |-> FALSE, status |-> "BLOCKED"]
    ELSE [thrown |-> FALSE, success |-> TRUE, status |-> "OK"]

(* BrowserAgent.performSearch *)
performSearch(nav) == navigateTo(nav)

(* BrowserAgent.extractPrice: selector, then heuristic, then text regex *)
extractPrice(selectors, prices) ==
    IF selectors.price_selector /\ Truthy(prices.selector)
    THEN [amount |-> prices.selector, method |-> "selector"]
    ELSE IF Truthy(prices.heuristic)
    THEN [amount |-> prices.heuristic, method |-> "heuristic"]
    ELSE IF Truthy(prices.regex)
    THEN [amount |-> prices.regex, method |-> "regex"]
    ELSE [amount |-> << >>, method |-> NULL]

NoResult == Result(NULL, 0, FALSE, NULL, NULL)

(* BrowserAgent.searchSite: thrown, or the record it returns *)
searchSite(siteName, pt, env) ==
    LET searchResult == performSearch(env.nav)
        productNav == navigateTo(env.productNav)
        price == extractPrice(SiteConfigs[siteName], env.prices)
        amount == price.amount
        meetsCriteria == IF Truthy(MaxPrice(pt)) /\ Truthy(amount)
                         THEN Val(amount) <= Val(MaxPrice(pt))
                         ELSE ~IsNull(amount)
    IN  IF searchResult.thrown
        THEN [thrown |-> TRUE, result |-> NoResult, found |-> FALSE]
        ELSE IF ~searchResult.success
        THEN [thrown |-> env.screenshotThrows,
              result |-> Result("Search failed", 0, FALSE, searchResult.status,
                                siteName),
              found |-> FALSE]
        ELSE IF env.link /\ productNav.thrown
        THEN [thrown |-> TRUE, result |-> NoResult, found |-> FALSE]
        ELSE [thrown |-> env.screenshotThrows,
              result |-> Result("product", IF Truthy(amount) THEN Val(amount) ELSE 0,
                                meetsCriteria, NULL, siteName),
              found |-> Truthy(amount)]

(* siteConfig.rate_limit || config.defaultRateLimit *)
rateLimitDelay(siteConfig) ==
    IF Truthy(siteConfig.rate_limit) THEN Val(siteConfig.rate_limit)
    ELSE DefaultRateLimit

(* what happened at one target, as seen at the browser; waited is the time *)
(* the agent waited before the first navigation to the target             *)
LogEntry(site, nav, found, pushed, waited) ==
    [site |-> site,
     waited |-> waited,
     http |-> nav.http,
     captcha |-> nav.captcha,
     status |-> IF navigateTo(nav).thrown THEN "THROWN" ELSE navigateTo(nav).status,
     found |-> found,
     pushed |-> pushed]

SitesOf(pt) == SitesOrEmpty(pt.sources)


(* What the result elements of the Google Shopping page carry as price *)
GoogleItems ==
    {<< >>, << << >> >>, << <<50>> >>, << <<150>>, <<0>> >>, << <<50>>, <<150>> >>}

(* BrowserAgent.searchGoogle once performSearch succeeded: one result per *)
(* element whose price text parses to an amount                             *)
googleResults(items, pt) ==
    LET priced == SelectSeq(items, LAMBDA a : Truthy(a))
    IN  [i \in 1..Len(priced) |->
           Result("google item", Val(priced[i]),
                  IF Truthy(MaxPrice(pt)) THEN Val(priced[i]) <= Val(MaxPrice(pt))
                  ELSE TRUE,
                  NULL, "google")]

(* the catch and finally blocks of BrowserAgent.executeTask *)
TaskLevelCatch(message) ==
    \E cleanupThrows \in BOOLEAN :
       IF cleanupThrows THEN Throws
       ELSE Returns([status |-> "TIMEOUT", results |-> << >>,
                     errors |-> <<message>>])

(* BrowserAgent.initialize *)
BA_Initialize ==
    /\ pc = "executing"
    /\ agent.strategy = "Browser"
    /\ agent.phase = "init"
    /\ \/ /\ agent' = [agent EXCEPT !.phase =
                          IF ParsedTaskOf(task).sources.mode = "google"
                          THEN "google" ELSE "sites"]
          /\ UNCHANGED <<pc, execResult, hist>>
       \/ /\ agent' = [agent EXCEPT !.phase = "failed"]
          /\ TaskLevelCatch("Browser initialization failed")
    /\ UNCHANGED <<config, task, activeTasks, userInput, response, guardVars, cu, srv>>

(* mode google: BrowserAgent.searchGoogle *)
BA_SearchGoogle ==
    /\ pc = "executing"
    /\ agent.strategy = "Browser"
    /\ agent.phase = "google"
    /\ \E nav \in NavEnvs, items \in GoogleItems :
         LET searchResult == performSearch(nav)
             found == IF searchResult.success
                      THEN googleResults(items, ParsedTaskOf(task)) ELSE << >>
             entry == LogEntry("google", nav, Len(found) > 0, Len(found) > 0, 0)
         IN  IF searchResult.thrown
             THEN /\ agent' = [agent EXCEPT !.phase = "failed",
                                            !.log = Append(@, entry)]
                  /\ TaskLevelCatch("navigation failed")
             ELSE /\ agent' = [agent EXCEPT !.phase = "return",
                                            !.results = @ \o found,
                                            !.log = Append(@, entry)]
                  /\ UNCHANGED <<pc, execResult, hist>>
    /\ UNCHANGED <<config, task, activeTasks, userInput, response, guardVars, cu, srv>>

(* a loop without the per-site try/catch: an exception at one site reaches *)
(* the task-level catch and the remaining sites are not visited           *)
BA_SearchSite_abortOnThrow ==
    /\ pc = "executing"
    /\ agent.strategy = "Browser"
    /\ agent.phase = "sites"
    /\ agent.idx <= Len(SitesOf(ParsedTaskOf(task)))
    /\ LET siteName == SitesOf(ParsedTaskOf(task))[agent.idx]
       IN  IF siteName \notin KnownSites
           THEN /\ agent' = [agent EXCEPT !.idx = @ + 1]
                /\ UNCHANGED <<pc, execResult, hist>>
           ELSE \E env \in PageEnvs :
                  LET out == searchSite(siteName, ParsedTaskOf(task), env)
                      entry == LogEntry(siteName, env.nav, out.found, ~out.thrown,
                                        rateLimitDelay(SiteConfigs[siteName]))
                  IN  IF out.thrown
                      THEN /\ agent' = [agent EXCEPT !.phase = "failed",
                                                     !.log = Append(@, entry)]
                           /\ TaskLevelCatch("site search failed")
                      ELSE /\ agent' = [agent EXCEPT
                                          !.idx = @ + 1,
                                          !.results = Append(@, out.result),
                                          !.log = Append(@, entry)]
                           /\ UNCHANGED <<pc, execResult, hist>>
    /\ UNCHANGED <<config, task, activeTasks, userInput, response, guardVars, cu, srv>>

(* one iteration of the loop over parsedTask.sources.sites *)
BA_SearchSite ==
    /\ pc = "executing"
    /\ agent.strategy = "Browser"
    /\ agent.phase = "sites"
    /\ agent.idx <= Len(SitesOf(ParsedTaskOf(task)))
    /\ LET siteName == SitesOf(ParsedTaskOf(task))[agent.idx]
       IN  IF siteName \notin KnownSites
           THEN agent' = [agent EXCEPT !.idx = @ + 1]
           ELSE \E env \in PageEnvs :
                  LET out == searchSite(siteName, ParsedTaskOf(task), env)
                  IN  agent' =
                        [agent EXCEPT
                           !.idx = @ + 1,
                           !.results = IF out.thrown THEN @ ELSE Append(@, out.result),
                           !.errors = IF out.thrown
                                      THEN Append(@, "site search failed") ELSE @,
                           !.log = Append(@, LogEntry(siteName, env.nav, out.found,
                                                      ~out.thrown,
                                                      rateLimitDelay(SiteConfigs[siteName])))]
    /\ UNCHANGED <<config, pc, task, activeTasks, userInput, execResult, hist,
                   response, guardVars, cu, srv>>

(* a status that is OK whatever was collected *)
executeTaskStatus_alwaysOk(results) == "OK"

(* BrowserAgent.executeTask lines 1119-1123: the status of a normal return *)
executeTaskStatus(results) == IF Len(results) > 0 THEN "OK" ELSE "NOT_FOUND"

(* the return statement of BrowserAgent.executeTask, then finally: close() *)
BA_Return ==
    /\ pc = "executing"
    /\ agent.strategy = "Browser"
    /\ \/ agent.phase = "return"
       \/ agent.phase = "sites" /\ agent.idx > Len(SitesOf(ParsedTaskOf(task)))
    /\ agent' = [agent EXCEPT !.phase = "closed"]
    /\ \E closeThrows \in BOOLEAN :
         IF closeThrows THEN Throws
         ELSE Returns([status |-> executeTaskStatus(agent.results),
                       results |-> agent.results,
                       errors |-> agent.errors])
    /\ UNCHANGED <<config, task, activeTasks, userInput, response, guardVars, cu, srv>>

-----------------------------------------------------------------------------
(* Directed strategy: ComputerUseAgent (agents/computer-use-agent.js) *)

(* A candidate result; product_name and store_name are strings kept as    *)
(* sequences of characters, price is a number                             *)
Candidate(name, price, store) ==
    [product_name |-> name, price |-> price, store_name |-> store]

(* Number.prototype.toString for a natural number, as characters *)
Digit(d) == <<"0", "1", "2", "3", "4", "5", "6", "7", "8", "9">>[d + 1]

RECURSIVE NumToStr(_)
NumToStr(n) ==
    IF n < 10 THEN <<Digit(n)>> ELSE NumToStr(n \div 10) \o <<Digit(n % 10)>>

(* deduplicateResults: key = `${r.product_name}-${r.price}-${r.store_name}` *)
dedupKey(r) ==
    r.product_name \o <<"-">> \o NumToStr(r.price) \o <<"-">> \o r.store_name

RECURSIVE FilterUnseen(_, _)
FilterUnseen(results, seen) ==
    IF results = << >> THEN << >>
    ELSE LET r == Head(results)
             key == dedupKey(r)
         IN  IF key \in seen
             THEN FilterUnseen(Tail(results), seen)
             ELSE <<r>> \o FilterUnseen(Tail(results), seen \cup {key})

(* a filter that forgets a key once it has dropped a duplicate of it *)
RECURSIVE FilterForgetful(_, _)
FilterForgetful(results, seen) ==
    IF results = << >> THEN << >>
    ELSE LET r == Head(results)
             key == dedupKey(r)
         IN  IF key \in seen
             THEN FilterForgetful(Tail(results), seen \ {key})
             ELSE <<r>> \o FilterForgetful(Tail(results), seen \cup {key})

deduplicateResults_forgetful(results) == FilterForgetful(results, {})

(* ComputerUseAgent.deduplicateResults *)
deduplicateResults(results) == FilterUnseen(results, {})

(* this.maxTurns (bounded here) and the maxRetries default of                *)
(* generateContentWithRetry                                                *)
MaxTurns == 2
MaxRetries == 3

(* Two products seen on pages or named in the model's text *)
ProductA == Candidate(<<"a">>, 1, <<"s">>)
ProductB == Candidate(<<"b">>, 2, <<"s">>)

(* What extractVisibleProducts returns over the function calls of one turn *)
PageData == {<< >>, <<ProductA>>, <<ProductA, ProductB>>}

(* What parseTextForProducts finds in a final text response *)
TextData == {<< >>, <<ProductB>>}

(* Errors thrown by model.generateContent: the HTTP status it carries and *)
(* whether its message contains the characters 429                        *)
PlanningErrors ==
    {[status |-> 429, has429 |-> TRUE], [status |-> 503, has429 |-> FALSE],
     [status |-> 500, has429 |-> FALSE], [status |-> 500, has429 |-> TRUE]}

(* Responses of the planning service: a text response (the model is done), *)
(* function calls (whose execution collects data, and may end in an        *)
(* exception of captureScreenshot/saveScreenshot), or no candidate at all. *)
(* answered says whether the loop over the calls ended with at least one   *)
(* function response (it has none when every call was skipped, and then    *)
(* no page data was collected either)                                      *)
PlanningResponses ==
    [kind : {"text"}, data : TextData, throws : {FALSE}, answered : {FALSE}]
      \cup {r \in [kind : {"calls"}, data : PageData, throws : BOOLEAN,
                    answered : BOOLEAN] :
                /\ r.throws => ~r.answered
                /\ (~r.throws /\ ~r.answered) => r.data = << >>}
      \cup {[kind |-> "malformed", data |-> << >>, throws |-> TRUE,
              answered |-> FALSE]}

(* entries of this.conversationHistory *)
GoalEntry == [role |-> "user", kind |-> "goal", turn |-> 0]

ModelEntry(kind, turn) == [role |-> "model", kind |-> kind, turn |-> turn]

FunctionResponseEntry(turn) ==
    [role |-> "user", kind |-> "functionResponses", turn |-> turn]

(* a history that keeps the latest entries only *)
historyPush_window(history, entry) ==
    IF Len(history) >= 3 THEN Append(Tail(history), entry)
    ELSE Append(history, entry)

(* this.conversationHistory.push(entry) *)
historyPush(history, entry) == Append(history, entry)

NoCU ==
    [phase |-> "idle", browser |-> "none", turn |-> 0, retries |-> 0,
     extracted |-> << >>, ret |-> << >>, failures |-> << >>, roundTrips |-> 0,
     abortedBy |-> NULL, history |-> << >>]

(* generateContentWithRetry, the catch clause: is the error retried *)
isRetryable(error) == error.has429 \/ error.status = 429 \/ error.status = 503

(* a retry loop that gives up one retry earlier *)
retryDecision_ceilingTwo(error, retries) ==
    IF isRetryable(error)
    THEN (IF retries + 1 > 2 THEN "throw" ELSE "retry")
    ELSE "throw"

(* generateContentWithRetry, the catch clause: retries++ and the ceiling *)
retryDecision(error, retries) ==
    IF isRetryable(error)
    THEN (IF retries + 1 > MaxRetries THEN "throw" ELSE "retry")
    ELSE "throw"

(* a loop condition that lets one more turn through *)
loopContinues_offByOne(turn) == turn <= MaxTurns

(* while (turn < this.maxTurns) *)
loopContinues(turn) == turn < MaxTurns

(* ComputerUseAgent.cleanup *)
cleanup(browser) == IF browser = "open" THEN "closed" ELSE browser

(* the catch block of executeTask, then finally: cleanup() *)
CU_Catch(c, cause) ==
    [c EXCEPT !.phase = "returned",
              !.ret = Some([success |-> FALSE, results |-> c.extracted,
                            turns |-> c.turn]),
              !.abortedBy = cause,
              !.browser = cleanup(c.browser)]

(* the normal return of executeTask, then finally: cleanup() *)
CU_Success(c) ==
    [c EXCEPT !.phase = "returned",
              !.ret = Some([success |-> TRUE,
                            results |-> deduplicateResults(c.extracted),
                            turns |-> c.turn]),
              !.browser = cleanup(c.browser)]

(* executeTask is called *)
CU_ExecuteTask ==
    /\ cu.phase = "idle"
    /\ cu' = [cu EXCEPT !.phase = "init"]
    /\ UNCHANGED <<orchVars, guardVars, srv>>

(* init(taskId), awaited before the try block of executeTask: chromium     *)
(* launch, then newContext, newPage and page.goto, any of which can throw  *)
CU_Init ==
    /\ cu.phase = "init"
    /\ \E outcome \in {"launch_failed", "page_failed", "ok"} :
         cu' = CASE outcome = "launch_failed" ->
                      [cu EXCEPT !.phase = "threw", !.abortedBy = "init"]
                 [] outcome = "page_failed" ->
                      [cu EXCEPT !.browser = "open", !.phase = "threw",
                                 !.abortedBy = "init"]
                 [] OTHER -> [cu EXCEPT !.browser = "open", !.phase = "started"]
    /\ UNCHANGED <<orchVars, guardVars, srv>>

(* the initial screenshot and the first conversation entry *)
CU_CaptureInitial ==
    /\ cu.phase = "started"
    /\ \E throws \in BOOLEAN :
         cu' = IF throws THEN CU_Catch(cu, "screenshot")
               ELSE [cu EXCEPT !.phase = "loop", !.history = <<GoalEntry>>]
    /\ UNCHANGED <<orchVars, guardVars, srv>>

(* a loop whose exhaustion is reported as a failure *)
CU_LoopTest_limitFails ==
    /\ cu.phase = "loop"
    /\ cu' = IF loopContinues(cu.turn)
             THEN [cu EXCEPT !.turn = @ + 1, !.retries = 0, !.failures = << >>,
                             !.phase = "calling"]
             ELSE CU_Catch(cu, "limit")
    /\ UNCHANGED <<orchVars, guardVars, srv>>

(* the loop condition: a new turn begins, or the turn limit ends the loop *)
CU_LoopTest ==
    /\ cu.phase = "loop"
    /\ cu' = IF loopContinues(cu.turn)
             THEN [cu EXCEPT !.turn = @ + 1, !.retries = 0, !.failures = << >>,
                             !.phase = "calling"]
             ELSE CU_Success(cu)
    /\ UNCHANGED <<orchVars, guardVars, srv>>

(* one attempt of generateContentWithRetry that throws *)
CU_GenerateFails ==
    /\ cu.phase = "calling"
    /\ \E error \in PlanningErrors :
         LET c == [cu EXCEPT !.failures = Append(@, error)]
         IN  cu' = IF retryDecision(error, cu.retries) = "retry"
                   THEN [c EXCEPT !.retries = @ + 1]
                   ELSE CU_Catch(c, "planning")
    /\ UNCHANGED <<orchVars, guardVars, srv>>

(* one attempt of generateContentWithRetry that returns, and the rest of  *)
(* the turn: the model's content is pushed to the history, the response   *)
(* is consumed, and the function responses, if any, are pushed            *)
CU_GenerateReturns ==
    /\ cu.phase = "calling"
    /\ \E resp \in PlanningResponses :
         LET c == [cu EXCEPT
                     !.extracted = @ \o resp.data,
                     !.history = historyPush(@, ModelEntry(resp.kind, cu.turn))]
             answered == [c EXCEPT
                            !.history = IF resp.answered
                                        THEN historyPush(@, FunctionResponseEntry(cu.turn))
                                        ELSE @]
         IN  cu' = CASE resp.kind = "malformed" -> CU_Catch(cu, "response")
                     [] resp.throws -> CU_Catch(c, "page")
                     [] resp.kind = "text" ->
                          CU_Success([c EXCEPT !.roundTrips = @ + 1])
                     [] OTHER -> [answered EXCEPT !.roundTrips = @ + 1,
                                                  !.phase = "loop"]
    /\ UNCHANGED <<orchVars, guardVars, srv>>

-----------------------------------------------------------------------------
(* The server process (index.js): concurrent POST /api/monitor requests on  *)
(* the singleton orchestrator, the shared config object and the result      *)
(* files. Every await of the code is a point where another request may run. *)

MaxTargets == 2

Requests == {"r1", "r2"}

(* uuidv4(): a fresh identifier at every call *)
uuidv4(r) == IF r = "r1" THEN "uuid-1" ELSE "uuid-2"

(* the dry_run field of the request body: absent, or a boolean *)
DryRunParams == {<< >>, <<TRUE>>, <<FALSE>>}

MockStrategies == {"MockBrowser", "MockComputerUse"}

LiveStrategies == {"Browser", "ComputerUse"}

NoRequest ==
    [pc |-> "new", dry_run |-> << >>, id |-> NULL, status |-> NULL,
     targets |-> 0, agent |-> << >>, unit |-> 0, open |-> 0,
     results |-> << >>, completedAt |-> FALSE, sets |-> 0, deletes |-> 0]

(* In a request, unit is the number of targets or actions started, open the *)
(* number of them in progress, sets and deletes the calls of                *)
(* activeTasks.set and activeTasks.delete made for its task. agents counts  *)
(* the agent objects constructed so far; use records which task drove which *)
(* agent's browser session                                                  *)
NoServer ==
    [req |-> [r \in Requests |-> NoRequest],
     csv |-> << >>, jsonl |-> << >>, summaries |-> {},
     agents |-> 0, use |-> {}]

singleVars == <<pc, task, userInput, execResult, agent, hist, response>>

(* POST /api/monitor up to the first await of processQuery: the request's   *)
(* dry_run overrides config.dryRun, then createTask registers the task      *)
SV_Post(r) ==
    /\ srv.req[r].pc = "new"
    /\ \E d \in DryRunParams :
         /\ config' = IF d # << >> THEN [config EXCEPT !.dryRun = Val(d)] ELSE config
         /\ srv' = [srv EXCEPT
                      !.req[r] = [@ EXCEPT !.pc = "parsing", !.dry_run = d,
                                           !.id = uuidv4(r),
                                           !.status = "IN_PROGRESS",
                                           !.sets = @ + 1]]
    /\ activeTasks' = activeTasks \cup {uuidv4(r)}
    /\ UNCHANGED <<singleVars, guardVars, cu>>

(* a finalizeTask that leaves the task in the registry *)
SV_finalizeTask_keep(r, status) ==
    /\ srv' = [srv EXCEPT
                 !.req[r] = [@ EXCEPT !.pc = "returned", !.status = status,
                                      !.completedAt = TRUE]]
    /\ UNCHANGED activeTasks

(* TaskOrchestrator.finalizeTask and the return of processQuery *)
SV_finalizeTask(r, status) ==
    /\ srv' = [srv EXCEPT
                 !.req[r] = [@ EXCEPT !.pc = "returned", !.status = status,
                                      !.completedAt = TRUE,
                                      !.deletes = @ + 1]]
    /\ activeTasks' = activeTasks \ {srv.req[r].id}

(* intentParser.parse came back and the task does not execute: parse       *)
(* failure, parse exception, clarification or validation failure           *)
SV_Reject(r) ==
    /\ srv.req[r].pc = "parsing"
    /\ \E status \in {"VALIDATION_FAILED", "CLARIFICATION_NEEDED", "TIMEOUT"} :
         SV_finalizeTask(r, status)
    /\ UNCHANGED <<config, singleVars, guardVars, cu>>

(* an agent factory that hands every task the same agent object *)
createAgent_shared(s) == 1

(* createComputerUseAgent / createBrowserAgent: new ...Agent() *)
createAgent(s) == s.agents + 1

(* the task passed the guardrails: the strategy is chosen from config as it *)
(* is now, a new agent is constructed and executeTask is called             *)
SV_Execute(r) ==
    /\ srv.req[r].pc = "parsing"
    /\ \E n \in 1..MaxTargets :
         srv' = [srv EXCEPT
                   !.req[r] = [@ EXCEPT !.pc = "executing", !.targets = n,
                                        !.agent = Some([id |-> createAgent(srv),
                                                        strategy |-> SelectStrategy(config)])],
                   !.agents = @ + 1]
    /\ UNCHANGED <<config, activeTasks, singleVars, guardVars, cu>>

(* executeTask throws before any target (ComputerUseAgent.init): the catch  *)
(* block of processQuery                                                    *)
SV_ExecThrows(r) ==
    /\ srv.req[r].pc = "executing"
    /\ srv.req[r].unit = 0
    /\ Val(srv.req[r].agent).strategy = "ComputerUse"
    /\ SV_finalizeTask(r, "TIMEOUT")
    /\ UNCHANGED <<config, singleVars, guardVars, cu>>

(* the for loops await each unit before the next one *)
unitMayStart(q) == q.open = 0 /\ q.unit < q.targets

(* the next target (site) or action starts on the task's agent *)
SV_BeginUnit(r) ==
    LET q == srv.req[r] IN
    /\ q.pc = "executing"
    /\ unitMayStart(q)
    /\ srv' = [srv EXCEPT
                 !.req[r] = [@ EXCEPT !.unit = @ + 1, !.open = @ + 1],
                 !.use = @ \cup {[agent |-> Val(q.agent).id, task |-> q.id]}]
    /\ UNCHANGED <<config, activeTasks, singleVars, guardVars, cu>>

(* a collector that puts the newest result first *)
pushResult_unshift(results, x) == <<x>> \o results

(* results.push(...) *)
pushResult(results, x) == Append(results, x)

(* the unit in progress ends: it pushed a result, or it did not (nothing    *)
(* found, or an exception caught for that unit); a mock agent always pushes *)
SV_EndUnit(r) ==
    LET q == srv.req[r] IN
    /\ q.pc = "executing"
    /\ q.open > 0
    /\ \E pushed \in (IF Val(q.agent).strategy \in MockStrategies
                      THEN {TRUE} ELSE BOOLEAN) :
         srv' = [srv EXCEPT
                   !.req[r] = [@ EXCEPT
                      !.open = @ - 1,
                      !.results = IF pushed
                                  THEN pushResult(@, [agent |-> Val(q.agent).id,
                                                      unit |-> q.unit])
                                  ELSE @]]
    /\ UNCHANGED <<config, activeTasks, singleVars, guardVars, cu>>

(* executeTask returns; processQuery lines 142-157: with no results the    *)
(* task is finalized at once                                               *)
SV_ExecReturns(r) ==
    LET q == srv.req[r]
        status == IF Val(q.agent).strategy \in {"Browser", "MockBrowser"}
                  THEN executeTaskStatus(q.results) ELSE "OK"
    IN
    /\ q.pc = "executing"
    /\ q.open = 0
    /\ q.unit = q.targets
    /\ IF Len(q.results) > 0
       THEN /\ srv' = [srv EXCEPT !.req[r] = [@ EXCEPT !.pc = "writeCSV",
                                                       !.status = status]]
            /\ UNCHANGED activeTasks
       ELSE SV_finalizeTask(r, status)
    /\ UNCHANGED <<config, singleVars, guardVars, cu>>

CsvHeader == [header |-> TRUE]

CsvRow(q, x) == [header |-> FALSE, task_id |-> q.id, unit |-> x.unit]

CsvRows(q) == [i \in 1..Len(q.results) |-> CsvRow(q, q.results[i])]

(* a writeCSV that writes the header in front of every batch *)
writeCSV_alwaysHeader(q, file) == file \o <<CsvHeader>> \o CsvRows(q)

(* writeCSV: existsSync, then one appendFileSync of header (new file) and rows *)
writeCSV(q, file) ==
    LET fileExists == file # << >>
    IN  file \o (IF ~fileExists THEN <<CsvHeader>> ELSE << >>) \o CsvRows(q)

JsonlRecord(q, x) ==
    [task_id |-> q.id, status |-> q.status, unit |-> x.unit,
     completedAt |-> q.completedAt]

(* writeJSONL: one appendFileSync of one line per result *)
writeJSONL(q, file) ==
    file \o [i \in 1..Len(q.results) |-> JsonlRecord(q, q.results[i])]

(* writeResults, first await: writeCSV; appendFileSync may throw, which     *)
(* writeResults rethrows into the catch block of processQuery               *)
SV_WriteCSV(r) ==
    LET q == srv.req[r] IN
    /\ q.pc = "writeCSV"
    /\ \/ /\ srv' = [srv EXCEPT !.csv = writeCSV(q, @),
                                !.req[r] = [@ EXCEPT !.pc = "writeJSONL"]]
          /\ UNCHANGED activeTasks
       \/ SV_finalizeTask(r, "TIMEOUT")
    /\ UNCHANGED <<config, singleVars, guardVars, cu>>

(* writeResults, second await: writeJSONL *)
SV_WriteJSONL(r) ==
    LET q == srv.req[r] IN
    /\ q.pc = "writeJSONL"
    /\ \/ /\ srv' = [srv EXCEPT !.jsonl = writeJSONL(q, @),
                                !.req[r] = [@ EXCEPT !.pc = "writeSummary"]]
          /\ UNCHANGED activeTasks
       \/ SV_finalizeTask(r, "TIMEOUT")
    /\ UNCHANGED <<config, singleVars, guardVars, cu>>

(* writeResults, third await: writeSummary writes task_<id>.json *)
SV_WriteSummary(r) ==
    LET q == srv.req[r] IN
    /\ q.pc = "writeSummary"
    /\ srv' = [srv EXCEPT !.summaries = @ \cup {q.id},
                          !.req[r] = [@ EXCEPT !.pc = "written"]]
    /\ UNCHANGED <<config, activeTasks, singleVars, guardVars, cu>>

(* writeResults returned: return this.finalizeTask(task, startTime) *)
SV_Finalize(r) ==
    /\ srv.req[r].pc = "written"
    /\ SV_finalizeTask(r, srv.req[r].status)
    /\ UNCHANGED <<config, singleVars, guardVars, cu>>

(* TaskOrchestrator.getTaskStatus: null when the id is not registered *)
getTaskStatus(taskId) ==
    IF taskId \in activeTasks THEN Some([task_id |-> taskId]) ELSE << >>

(* TaskOrchestrator.getActiveTasks *)
getActiveTasks == {[task_id |-> id] : id \in activeTasks}

-----------------------------------------------------------------------------
(* parsePrice (validation/normalizers.js). A text is a sequence of          *)
(* characters; an amount is kept in thousandths (99.99 is 99990).           *)

DigitChars == <<"0", "1", "2", "3", "4", "5", "6", "7", "8", "9">>

IsDigit(c) == \E d \in 1..10 : DigitChars[d] = c

DigitValue(c) == (CHOOSE d \in 1..10 : DigitChars[d] = c) - 1

IsSeparator(c) == c \in {".", ","}

IsSpace(c) == c = " "

(* String.prototype.toUpperCase on the letters of the model *)
toUpperCase(c) ==
    CASE c = "e" -> "E" [] c = "u" -> "U" [] c = "r" -> "R"
      [] c = "s" -> "S" [] c = "d" -> "D"
      [] c = "g" -> "G" [] c = "b" -> "B" [] c = "p" -> "P"
      [] OTHER -> c

(* text.replace(/\s+/g, ' ').trim() *)
RECURSIVE collapseSpaces(_)
collapseSpaces(t) ==
    IF Len(t) < 2 THEN t
    ELSE IF IsSpace(t[1]) /\ IsSpace(t[2]) THEN collapseSpaces(Tail(t))
    ELSE <<t[1]>> \o collapseSpaces(Tail(t))

trim(t) ==
    LET a == IF t # << >> /\ IsSpace(t[1]) THEN Tail(t) ELSE t
    IN  IF a # << >> /\ IsSpace(a[Len(a)]) THEN SubSeq(a, 1, Len(a) - 1) ELSE a

cleanText(text) == trim(collapseSpaces(text))

(* the literal `word` stands at position i of t; ci is the /i flag *)
LiteralAt(t, i, word, ci) ==
    /\ i >= 1
    /\ i + Len(word) - 1 <= Len(t)
    /\ \A k \in 1..Len(word) :
          IF ci THEN toUpperCase(t[i + k - 1]) = toUpperCase(word[k])
          ELSE t[i + k - 1] = word[k]

Includes(t, word, ci) == \E i \in 1..Len(t) : LiteralAt(t, i, word, ci)

(* the last index of the run of digits that starts at i (t[i] is a digit) *)
DigitRunEnd(t, i) ==
    CHOOSE e \in i..Len(t) :
        /\ \A k \in i..e : IsDigit(t[k])
        /\ (e = Len(t) \/ ~IsDigit(t[e + 1]))

(* \s* : the first index at or after i that holds no space *)
SkipSpaces(t, i) ==
    CHOOSE j \in i..(Len(t) + 1) :
        /\ \A k \in i..(j - 1) : IsSpace(t[k])
        /\ (j = Len(t) + 1 \/ ~IsSpace(t[j]))

(* the ends at which [0-9]+(?:[.,][0-9]{1,2})? can stop when it starts at   *)
(* the digit i, in the order the regex engine tries them: two fraction      *)
(* digits, one fraction digit, no fraction                                  *)
NumberEnds(t, i) ==
    LET e == DigitRunEnd(t, i)
        hasFraction == e + 2 <= Len(t) /\ IsSeparator(t[e + 1]) /\ IsDigit(t[e + 2])
        twoDigits == hasFraction /\ e + 3 <= Len(t) /\ IsDigit(t[e + 3])
    IN  (IF twoDigits THEN <<e + 3>> ELSE << >>)
        \o (IF hasFraction THEN <<e + 2>> ELSE << >>)
        \o <<e>>

(* a price pattern of parsePrice: the currency marker before the number    *)
(* (/MARK\s*(NUM)/) or after it (/(NUM)\s*MARK/)                            *)
Pattern(mark, before, ci) == [mark |-> mark, before |-> before, ci |-> ci]

EuroSign == <<"€">>
DollarSign == <<"$">>
PoundSign == <<"£">>

patterns ==
    << Pattern(EuroSign, TRUE, FALSE),   Pattern(EuroSign, FALSE, FALSE),
       Pattern(DollarSign, TRUE, FALSE), Pattern(DollarSign, FALSE, FALSE),
       Pattern(PoundSign, TRUE, FALSE),  Pattern(PoundSign, FALSE, FALSE),
       Pattern(<<"E", "U", "R">>, TRUE, TRUE), Pattern(<<"E", "U", "R">>, FALSE, TRUE),
       Pattern(<<"U", "S", "D">>, TRUE, TRUE), Pattern(<<"U", "S", "D">>, FALSE, TRUE),
       Pattern(<<"G", "B", "P">>, TRUE, TRUE), Pattern(<<"G", "B", "P">>, FALSE, TRUE) >>

(* the capture group when the pattern is tried at start position i, or     *)
(* << >> when it does not match there                                      *)
MatchAt(t, i, p) ==
    IF p.before
    THEN IF LiteralAt(t, i, p.mark, p.ci)
         THEN LET n == SkipSpaces(t, i + Len(p.mark))
              IN  IF n <= Len(t) /\ IsDigit(t[n])
                  THEN <<SubSeq(t, n, NumberEnds(t, n)[1])>>
                  ELSE << >>
         ELSE << >>
    ELSE IF IsDigit(t[i])
         THEN LET ends == NumberEnds(t, i)
                  ok == {k \in 1..Len(ends) :
                            LiteralAt(t, SkipSpaces(t, ends[k] + 1), p.mark, p.ci)}
              IN  IF ok = {} THEN << >>
                  ELSE <<SubSeq(t, i, ends[CHOOSE k \in ok : \A m \in ok : k <= m])>>
         ELSE << >>

(* cleaned.match(pattern): the capture of the leftmost match, or << >> *)
match(t, p) ==
    LET starts == {i \in 1..Len(t) : MatchAt(t, i, p) # << >>}
    IN  IF starts = {} THEN << >>
        ELSE MatchAt(t, CHOOSE i \in starts : \A j \in starts : i <= j, p)

(* parseFloat(s.replace(',', '.')) for a captured number, in thousandths *)
RECURSIVE DigitsToInt(_)
DigitsToInt(s) ==
    IF s = << >> THEN 0
    ELSE 10 * DigitsToInt(SubSeq(s, 1, Len(s) - 1)) + DigitValue(s[Len(s)])

parseFloat(s) ==
    LET e == DigitRunEnd(s, 1)
        fraction == SubSeq(s, e + 2, Len(s))
    IN  1000 * DigitsToInt(SubSeq(s, 1, e))
        + (IF Len(fraction) = 0 THEN 0
           ELSE IF Len(fraction) = 1 THEN 100 * DigitsToInt(fraction)
           ELSE IF Len(fraction) = 2 THEN 10 * DigitsToInt(fraction)
           ELSE DigitsToInt(SubSeq(fraction, 1, 3)))

(* parsePrice lines 153-157: the currency is looked up in the whole text *)
detectCurrency(cleaned) ==
    IF Includes(cleaned, DollarSign, FALSE) \/ Includes(cleaned, <<"U", "S", "D">>, TRUE)
    THEN "USD"
    ELSE IF Includes(cleaned, PoundSign, FALSE) \/ Includes(cleaned, <<"G", "B", "P">>, TRUE)
    THEN "GBP"
    ELSE "EUR"

(* parsePrice; text is null (<< >>) or a string (<<characters>>) *)
parsePrice(text) ==
    IF IsNull(text) \/ Val(text) = << >>
    THEN [amount |-> << >>, currency |-> NULL]
    ELSE LET cleaned == cleanText(Val(text))
             hits == {k \in 1..Len(patterns) : match(cleaned, patterns[k]) # << >>}
             digits == {i \in 1..Len(cleaned) : IsDigit(cleaned[i])}
         IN  IF hits # {}
             THEN LET first == CHOOSE k \in hits : \A m \in hits : k <= m
                  IN  [amount |-> Some(parseFloat(Val(match(cleaned, patterns[first])))),
                       currency |-> detectCurrency(cleaned)]
             ELSE IF digits # {}
             THEN LET i == CHOOSE i \in digits : \A j \in digits : i <= j
                  IN  [amount |-> Some(parseFloat(SubSeq(cleaned, i,
                                                         NumberEnds(cleaned, i)[1]))),
                       currency |-> NULL]
             ELSE [amount |-> << >>, currency |-> NULL]

(* POST /api/monitor: the HTTP status chosen for a processQuery result *)
httpStatus(result) ==
    IF result.status = "VALIDATION_FAILED" THEN 400
    ELSE IF result.status = "CLARIFICATION_NEEDED" THEN 422
    ELSE IF result.status = "NOT_FOUND" THEN 404
    ELSE IF ~IsNull(result.errors) /\ Len(Val(result.errors)) > 0 THEN 500
    ELSE 200

-----------------------------------------------------------------------------
(* The pipeline as a state machine *)

Configs == [dryRun : BOOLEAN, useComputerUse : BOOLEAN, hasApiKey : BOOLEAN]

NoGuardOutput ==
    [evaluated |-> FALSE,
     clarification |-> [needsClarification |-> FALSE, questions |-> << >>],
     validation |-> createValidationResult(TRUE, << >>, << >>)]

Init ==
    /\ config \in Configs
    /\ pc = "idle"
    /\ task = NoTask
    /\ activeTasks = {}
    /\ userInput = NULL
    /\ execResult = << >>
    /\ agent = NoAgent
    /\ hist = NoHist
    /\ response = << >>
    /\ gIn = NULL
    /\ gOut = NoGuardOutput
    /\ cu = NoCU
    /\ srv = NoServer

TaskStep ==
    \/ StartParsing
    \/ ParseThrows
    \/ ParseFails
    \/ ParseOk_Clarification
    \/ ParseOk_Invalid
    \/ ParseOk_Execute
    \/ ComputerUse_Execute
    \/ MockComputerUse_Execute
    \/ MockBrowser_Execute
    \/ BA_Initialize
    \/ BA_SearchGoogle
    \/ BA_SearchSite
    \/ BA_Return
    \/ ExecDone_Write
    \/ ExecDone_Finalize
    \/ ExecThrew
    \/ WriteOk
    \/ WriteThrows

Next == ProcessQuery \/ TaskStep

Spec == Init /\ [][Next]_vars

(* every pending step of a started processQuery is eventually taken: each *)
(* awaited call returns or throws                                         *)
FairSpec == Spec /\ WF_vars(TaskStep)

-----------------------------------------------------------------------------
(* The guardrail functions on their own: any parsed task, evaluated once *)

InitGuard ==
    /\ config = [dryRun |-> TRUE, useComputerUse |-> FALSE, hasApiKey |-> FALSE]
    /\ pc = "idle"
    /\ task = NoTask
    /\ activeTasks = {}
    /\ userInput = NULL
    /\ execResult = << >>
    /\ agent = NoAgent
    /\ hist = NoHist
    /\ response = << >>
    /\ gIn \in GuardInputs
    /\ gOut = NoGuardOutput
    /\ cu = NoCU
    /\ srv = NoServer

GuardEvaluate ==
    /\ ~gOut.evaluated
    /\ gOut' = [evaluated |-> TRUE,
                clarification |-> needsClarification(gIn),
                validation |-> validateTask(gIn)]
    /\ UNCHANGED <<gIn, orchVars, cu, srv>>

NextGuard == GuardEvaluate

SpecGuard == InitGuard /\ [][NextGuard]_vars

-----------------------------------------------------------------------------
(* The Directed Agent on its own: one executeTask call *)

InitCU ==
    /\ config = [dryRun |-> FALSE, useComputerUse |-> TRUE, hasApiKey |-> TRUE]
    /\ pc = "idle"
    /\ task = NoTask
    /\ activeTasks = {}
    /\ userInput = NULL
    /\ execResult = << >>
    /\ agent = NoAgent
    /\ hist = NoHist
    /\ response = << >>
    /\ gIn = NULL
    /\ gOut = NoGuardOutput
    /\ cu = NoCU
    /\ srv = NoServer

CUStep ==
    \/ CU_Init
    \/ CU_CaptureInitial
    \/ CU_LoopTest
    \/ CU_GenerateFails
    \/ CU_GenerateReturns

NextCU == CU_ExecuteTask \/ CUStep

SpecCU == InitCU /\ [][NextCU]_vars

(* every awaited call of a started executeTask returns or throws *)
FairSpecCU == SpecCU /\ WF_vars(CUStep)

-----------------------------------------------------------------------------
(* deduplicateResults on its own: any list of candidates, filtered once and *)
(* filtered again                                                           *)

MaxLen == 3

(* Candidates as pages and text responses give them: names and stores are *)
(* free text and may hold hyphens and digits                              *)
DedupCandidates ==
    {Candidate(<<"a", "-", "1">>, 2, <<"s">>),
     Candidate(<<"a">>, 1, <<"2", "-", "s">>),
     Candidate(<<"a">>, 12, <<"s">>),
     Candidate(<<"b">>, 2, <<"s">>)}

DedupInputs == SeqsUpTo(DedupCandidates, MaxLen)

NoDedupOutput == [evaluated |-> FALSE, once |-> << >>, twice |-> << >>]

InitDedup ==
    /\ config = [dryRun |-> FALSE, useComputerUse |-> TRUE, hasApiKey |-> TRUE]
    /\ pc = "idle"
    /\ task = NoTask
    /\ activeTasks = {}
    /\ userInput = NULL
    /\ execResult = << >>
    /\ agent = NoAgent
    /\ hist = NoHist
    /\ response = << >>
    /\ gIn \in DedupInputs
    /\ gOut = NoDedupOutput
    /\ cu = NoCU
    /\ srv = NoServer

DedupEvaluate ==
    /\ ~gOut.evaluated
    /\ gOut' = [evaluated |-> TRUE,
                once |-> deduplicateResults(gIn),
                twice |-> deduplicateResults(deduplicateResults(gIn))]
    /\ UNCHANGED <<gIn, orchVars, cu, srv>>

NextDedup == DedupEvaluate

SpecDedup == InitDedup /\ [][NextDedup]_vars

-----------------------------------------------------------------------------
(* Coordinate denormalization (ComputerUseAgent.denormalizeX / denormalizeY) *)

SCREEN_WIDTH == 1440
SCREEN_HEIGHT == 900

(* the planning model gives coordinates in 0..999 whatever the screen size *)
NormalizedCoords == 0..999

(* Math.round(num / den) for num >= 0. The operand is a binary floating-     *)
(* point product: when the exact value ends in .5 the computed one may fall  *)
(* just below it (y = 565 gives 508.49999999999994), so on an exact half     *)
(* either neighbour can be the result; tieUp says which one it is            *)
RoundQuotient(num, den, tieUp) ==
    LET q == num \div den
        r == num % den
    IN  IF 2 * r > den THEN q + 1
        ELSE IF 2 * r = den THEN (IF tieUp THEN q + 1 ELSE q)
        ELSE q

(* a conversion that divides by the largest coordinate instead of 1000 *)
denormalizeX_by999(x, tieUp) == RoundQuotient(x * SCREEN_WIDTH, 999, tieUp)

(* denormalizeX: Math.round((x / 1000) * SCREEN_WIDTH) *)
denormalizeX(x, tieUp) == RoundQuotient(x * SCREEN_WIDTH, 1000, tieUp)

(* denormalizeY: Math.round((y / 1000) * SCREEN_HEIGHT) *)
denormalizeY(y, tieUp) == RoundQuotient(y * SCREEN_HEIGHT, 1000, tieUp)

CoordInputs == [axis : {"x", "y"}, n : NormalizedCoords, tieUp : BOOLEAN]

NoCoordOutput == [evaluated |-> FALSE, pixel |-> 0]

InitCoord ==
    /\ config = [dryRun |-> FALSE, useComputerUse |-> TRUE, hasApiKey |-> TRUE]
    /\ pc = "idle"
    /\ task = NoTask
    /\ activeTasks = {}
    /\ userInput = NULL
    /\ execResult = << >>
    /\ agent = NoAgent
    /\ hist = NoHist
    /\ response = << >>
    /\ gIn \in CoordInputs
    /\ gOut = NoCoordOutput
    /\ cu = NoCU
    /\ srv = NoServer

CoordEvaluate ==
    /\ ~gOut.evaluated
    /\ gOut' = [evaluated |-> TRUE,
                pixel |-> IF gIn.axis = "x" THEN denormalizeX(gIn.n, gIn.tieUp)
                          ELSE denormalizeY(gIn.n, gIn.tieUp)]
    /\ UNCHANGED <<gIn, orchVars, cu, srv>>

NextCoord == CoordEvaluate

SpecCoord == InitCoord /\ [][NextCoord]_vars

-----------------------------------------------------------------------------
(* The function-call loop of one turn (ComputerUseAgent.executeTask, the     *)
(* for loop over functionCalls)                                              *)

MaxCalls == 2

ActionNames == {"click_at", "type_text_at"}

(* args.safety_decision?.decision: absent, require_confirmation, or another value *)
SafetyDecisions == {NULL, "require_confirmation", "regular"}

FunctionCalls == [name : ActionNames, decision : SafetyDecisions]

FunctionCallLists == SeqsUpTo(FunctionCalls, MaxCalls)

(* i is the index of the function call the loop is at; dispatched lists the  *)
(* indexes handed to executeAction, functionResponses the indexes answered   *)
NoTurn == [phase |-> "loop", i |-> 1, dispatched |-> << >>,
           functionResponses |-> << >>]

InitTurn ==
    /\ config = [dryRun |-> FALSE, useComputerUse |-> TRUE, hasApiKey |-> TRUE]
    /\ pc = "idle"
    /\ task = NoTask
    /\ activeTasks = {}
    /\ userInput = NULL
    /\ execResult = << >>
    /\ agent = NoAgent
    /\ hist = NoHist
    /\ response = << >>
    /\ gIn \in FunctionCallLists
    /\ gOut = NoTurn
    /\ cu = NoCU
    /\ srv = NoServer

requiresConfirmation(fc) == fc.decision = "require_confirmation"

(* a loop that dispatches the action before it moves on *)
FC_Skip_dispatch ==
    /\ gOut.phase = "loop"
    /\ gOut.i <= Len(gIn)
    /\ requiresConfirmation(gIn[gOut.i])
    /\ gOut' = [gOut EXCEPT !.i = @ + 1,
                            !.dispatched = Append(@, gOut.i)]
    /\ UNCHANGED <<gIn, orchVars, cu, srv>>

(* lines 170-177: the safety decision asks for confirmation, continue *)
FC_Skip ==
    /\ gOut.phase = "loop"
    /\ gOut.i <= Len(gIn)
    /\ requiresConfirmation(gIn[gOut.i])
    /\ gOut' = [gOut EXCEPT !.i = @ + 1]
    /\ UNCHANGED <<gIn, orchVars, cu, srv>>

(* lines 179-221: executeAction is called (what it throws is caught and      *)
(* logged), then the new state is captured; an exception of the capture is   *)
(* not caught in the loop and ends executeTask through its catch block       *)
FC_Execute ==
    /\ gOut.phase = "loop"
    /\ gOut.i <= Len(gIn)
    /\ ~requiresConfirmation(gIn[gOut.i])
    /\ \E captureThrows \in BOOLEAN :
         gOut' = IF captureThrows
                 THEN [gOut EXCEPT !.phase = "aborted",
                                   !.dispatched = Append(@, gOut.i)]
                 ELSE [gOut EXCEPT !.i = @ + 1,
                                   !.dispatched = Append(@, gOut.i),
                                   !.functionResponses = Append(@, gOut.i)]
    /\ UNCHANGED <<gIn, orchVars, cu, srv>>

(* the for loop is exhausted: lines 224-233 *)
FC_Finish ==
    /\ gOut.phase = "loop"
    /\ gOut.i > Len(gIn)
    /\ gOut' = [gOut EXCEPT !.phase = "done"]
    /\ UNCHANGED <<gIn, orchVars, cu, srv>>

NextTurn == FC_Skip \/ FC_Execute \/ FC_Finish

SpecTurn == InitTurn /\ [][NextTurn]_vars

-----------------------------------------------------------------------------
(* The server with concurrent requests *)

ServerConfigs == {c \in Configs : c.hasApiKey}

InitServer ==
    /\ config \in ServerConfigs
    /\ pc = "idle"
    /\ task = NoTask
    /\ activeTasks = {}
    /\ userInput = NULL
    /\ execResult = << >>
    /\ agent = NoAgent
    /\ hist = NoHist
    /\ response = << >>
    /\ gIn = NULL
    /\ gOut = NoGuardOutput
    /\ cu = NoCU
    /\ srv = NoServer

NextServer ==
    \E r \in Requests :
        \/ SV_Post(r)
        \/ SV_Reject(r)
        \/ SV_Execute(r)
        \/ SV_ExecThrows(r)
        \/ SV_BeginUnit(r)
        \/ SV_EndUnit(r)
        \/ SV_ExecReturns(r)
        \/ SV_WriteCSV(r)
        \/ SV_WriteJSONL(r)
        \/ SV_WriteSummary(r)
        \/ SV_Finalize(r)

SpecServer == InitServer /\ [][NextServer]_vars

-----------------------------------------------------------------------------
(* parsePrice on its own *)

MaxParts == 3

(* The pieces price texts are made of: numbers with their value in         *)
(* thousandths, currency markers with the currency they stand for, a       *)
(* space, a word                                                           *)
NumberPart(chars, value) == [kind |-> "number", chars |-> chars, value |-> value]

MarkerPart(chars, currency) == [kind |-> "marker", chars |-> chars, currency |-> currency]

PriceParts ==
    { NumberPart(<<"5">>, 5000),
      NumberPart(<<"1", "2", ",", "5">>, 12500),
      NumberPart(<<"9", "9", ".", "9", "9">>, 99990),
      NumberPart(<<"1", ".", "2", "9", "9">>, 1299),
      MarkerPart(EuroSign, "EUR"),
      MarkerPart(DollarSign, "USD"),
      MarkerPart(PoundSign, "GBP"),
      MarkerPart(<<"E", "U", "R">>, "EUR"),
      MarkerPart(<<"u", "s", "d">>, "USD"),
      MarkerPart(<<"G", "B", "P">>, "GBP"),
      [kind |-> "space", chars |-> <<" ">>],
      [kind |-> "word", chars |-> <<"n", "o">>] }

(* texts in which no two numbers touch *)
PriceTexts ==
    {s \in SeqsUpTo(PriceParts, MaxParts) :
        \A i \in 1..(Len(s) - 1) : ~(s[i].kind = "number" /\ s[i + 1].kind = "number")}

RECURSIVE TextOf(_)
TextOf(parts) ==
    IF parts = << >> THEN << >> ELSE parts[1].chars \o TextOf(Tail(parts))

NoPriceOutput == [evaluated |-> FALSE, amount |-> << >>, currency |-> NULL]

InitPrice ==
    /\ config = [dryRun |-> FALSE, useComputerUse |-> FALSE, hasApiKey |-> TRUE]
    /\ pc = "idle"
    /\ task = NoTask
    /\ activeTasks = {}
    /\ userInput = NULL
    /\ execResult = << >>
    /\ agent = NoAgent
    /\ hist = NoHist
    /\ response = << >>
    /\ gIn \in {<< >>} \cup {<<parts>> : parts \in PriceTexts}
    /\ gOut = NoPriceOutput
    /\ cu = NoCU
    /\ srv = NoServer

PriceEvaluate ==
    /\ ~gOut.evaluated
    /\ LET out == parsePrice(IF IsNull(gIn) THEN << >> ELSE Some(TextOf(Val(gIn))))
       IN  gOut' = [evaluated |-> TRUE, amount |-> out.amount,
                    currency |-> out.currency]
    /\ UNCHANGED <<gIn, orchVars, cu, srv>>

NextPrice == PriceEvaluate

SpecPrice == InitPrice /\ [][NextPrice]_vars

-----------------------------------------------------------------------------
(* Claims *)

Range(seq) == {seq[i] : i \in DOMAIN seq}

Count(b) == IF b THEN 1 ELSE 0

HasParsedTask == ~IsNull(task.parsedTask)

(* C1: every started processQuery finalizes its task (terminal status,       *)
(* completedAt set, removed from the registry), and an exception that        *)
(* reaches processQuery yields final status TIMEOUT with its message in      *)
(* errors.                                                                   *)
C1_Finalized ==
    /\ pc = "done"
    /\ task.status \in TerminalStatuses
    /\ task.completedAt
    /\ TaskId \notin activeTasks
    /\ ~IsNull(response)

C1_EveryQueryFinalizes ==
    /\ (pc = "created") ~> C1_Finalized
    /\ [](hist.caught # << >> =>
            /\ C1_Finalized
            /\ task.status = "TIMEOUT"
            /\ hist.caught[Len(hist.caught)] \in Range(task.errors))

C1_Witness ==
    /\ C1_Finalized
    /\ hist.caught = <<"write failed">>
    /\ task.status = "TIMEOUT"
    /\ "write failed" \in Range(task.errors)

(* C2: once the task's status is a terminal status, no later step of       *)
(* processQuery changes it.                                                 *)
C2_TerminalAbsorbing ==
    [][task.status \in TerminalStatuses => task.status' = task.status]_vars

(* C3: a finished task with status CLARIFICATION_NEEDED or VALIDATION_FAILED *)
(* had no strategy invoked; one with status OK, NOT_FOUND, CAPTCHA, BLOCKED   *)
(* or TIMEOUT had executeTask invoked and carries that execution's outcome.   *)
ExecutionOutcome ==
    IF hist.execOutcome = "THROWN" THEN "TIMEOUT" ELSE hist.execOutcome

C3_StatusOrigin ==
    pc = "done" =>
        /\ task.status \in {"CLARIFICATION_NEEDED", "VALIDATION_FAILED"}
              => hist.execCalls = << >>
        /\ task.status \in ExecutionStatuses
              => /\ hist.execCalls # << >>
                 /\ task.status = ExecutionOutcome

(* C4: executeTask is invoked at most once per task, on the one strategy    *)
(* the configuration selects, and only after a successful parse, a negative *)
(* clarification check and a valid guard verdict; the guard is never run    *)
(* for a task on which clarification triggered.                             *)
C4_PhasesGated ==
    /\ Len(hist.execCalls) <= 1
    /\ hist.execCalls # << >> =>
          /\ hist.execCalls[1] \in
                (IF config.useComputerUse THEN {"ComputerUse", "MockComputerUse"}
                 ELSE {"Browser", "MockBrowser"})
          /\ HasParsedTask
          /\ hist.parseCalls = 1 /\ hist.clarifyCalls = 1 /\ hist.guardCalls = 1
          /\ ~needsClarification(ParsedTaskOf(task)).needsClarification
          /\ validateTask(ParsedTaskOf(task)).valid
    /\ (HasParsedTask /\ needsClarification(ParsedTaskOf(task)).needsClarification)
          => hist.guardCalls = 0 /\ hist.execCalls = << >>
    /\ hist.guardCalls > 0 => hist.clarifyCalls = 1 /\ HasParsedTask

C4_Witness ==
    /\ pc = "done"
    /\ hist.execCalls = <<"Browser">>
    /\ task.status = "OK"

(* C5: a parsed task whose confidence is below the minimum ends             *)
(* CLARIFICATION_NEEDED with a non-empty question list and no strategy      *)
(* invoked; the mock parser gives a query without a recognised brand        *)
(* confidence 0.5, so such a query ends that way.                           *)
C5_LowConfidenceClarifies ==
    /\ (HasParsedTask /\ ParsedTaskOf(task).confidence < MinConfidence) =>
          /\ pc = "done"
          /\ task.status = "CLARIFICATION_NEEDED"
          /\ Len(task.errors) > 0
          /\ response[1].clarification_needed = Some(task.errors)
          /\ hist.execCalls = << >>
    /\ (HasParsedTask /\ UsesMockParser(config) /\ userInput.brand = NULL) =>
          /\ ParsedTaskOf(task).confidence = MockConfNoBrand
          /\ MockConfNoBrand < MinConfidence
          /\ task.status = "CLARIFICATION_NEEDED"

C5_Witness ==
    /\ pc = "done"
    /\ UsesMockParser(config)
    /\ userInput.text = "find something cheap"
    /\ task.status = "CLARIFICATION_NEEDED"
    /\ Len(task.errors) > 0

(* C6 as stated: needsClarification is true exactly when confidence is      *)
(* below the threshold or brand and model are both null.                    *)
C6_OnlyConfidenceOrProduct ==
    gOut.evaluated =>
        gOut.clarification.needsClarification =
            (\/ gIn.confidence < MinConfidence
             \/ gIn.product.brand = NULL /\ gIn.product.model = NULL)

(* C6 amended: needsClarification is a function of (confidence, brand,      *)
(* model, sources), true exactly when confidence is below the threshold, or *)
(* brand and model are both missing (null or empty), or the mode is         *)
(* specific_sites with a null or empty site list.                           *)
C6_ClarificationPredicate ==
    gOut.evaluated =>
        /\ gOut.clarification.needsClarification =
              (\/ gIn.confidence < MinConfidence
               \/ gIn.product.brand \in {NULL, ""} /\ gIn.product.model \in {NULL, ""}
               \/ /\ gIn.sources.mode = "specific_sites"
                  /\ gIn.sources.sites \in {<< >>, << << >> >>})
        /\ gOut.clarification.needsClarification
              = (Len(gOut.clarification.questions) > 0)

C6_Witness ==
    /\ gOut.evaluated
    /\ gIn.confidence >= MinConfidence
    /\ gIn.product.brand = "Nike"
    /\ gIn.sources.mode = "specific_sites"
    /\ gIn.sources.sites = << << >> >>
    /\ gOut.clarification.needsClarification

(* C7: validateTask reports every violated rule: each violated rule has its *)
(* entry in errors, k violated rules give at least k errors, and valid is   *)
(* true exactly when errors is empty.                                       *)
RuleTaskType(pt) == pt.task_type # "price_monitoring"
RuleProduct(pt) == pt.product.brand \in {NULL, ""} /\ pt.product.model \in {NULL, ""}
RuleMaxPrice(pt) == pt.constraints.max_price # << >> /\ pt.constraints.max_price[1] <= 0
RuleSources(pt) ==
    \/ pt.sources.mode \in {NULL, ""}
    \/ pt.sources.mode = "specific_sites" /\ pt.sources.sites \in {<< >>, << << >> >>}
RuleConfidence(pt) ==
    pt.confidence < 0 \/ pt.confidence > 100 \/ pt.confidence < MinConfidence

ViolatedRules(pt) ==
    Count(RuleTaskType(pt)) + Count(RuleProduct(pt)) + Count(RuleMaxPrice(pt))
      + Count(RuleSources(pt)) + Count(RuleConfidence(pt))

C7_AllViolationsReported ==
    gOut.evaluated =>
        LET errors == gOut.validation.errors
        IN  /\ Len(errors) >= ViolatedRules(gIn)
            /\ RuleTaskType(gIn) => "Unsupported task type" \in Range(errors)
            /\ RuleProduct(gIn)
                  => "Either brand or model must be specified" \in Range(errors)
            /\ RuleMaxPrice(gIn)
                  => "max_price must be a positive number" \in Range(errors)
            /\ RuleSources(gIn)
                  => Range(errors) \cap {"Search mode must be specified",
                                         "At least one site must be specified"} # {}
            /\ RuleConfidence(gIn)
                  => Range(errors) \cap {"Confidence must be a number between 0 and 1",
                                         "Confidence score is below minimum threshold"}
                       # {}
            /\ gOut.validation.valid = (errors = << >>)
            /\ ViolatedRules(gIn) = 0 => gOut.validation.valid

C7_Witness ==
    /\ gOut.evaluated
    /\ ViolatedRules(gIn) = 5
    /\ Len(gOut.validation.errors) = 5
    /\ ~gOut.validation.valid

(* The finished tasks the Deterministic Agent (BrowserAgent) executed and  *)
(* returned from without any exception reaching processQuery.              *)
DeterministicFinished ==
    /\ pc = "done"
    /\ hist.execCalls = <<"Browser">>
    /\ hist.execOutcome # "THROWN"
    /\ hist.caught = << >>

TargetCount ==
    IF ParsedTaskOf(task).sources.mode = "google" THEN 1
    ELSE Len(SitesOf(ParsedTaskOf(task)))

(* C8: in the Deterministic Agent a target whose navigation answers HTTP    *)
(* 403 or 429 (on a page that shows no CAPTCHA) gets status BLOCKED and    *)
(* contributes no entry to the results.                                     *)
C8_BlockedTargetNoResult ==
    \A i \in DOMAIN agent.log :
        (agent.log[i].http \in {403, 429} /\ ~agent.log[i].captcha) =>
            /\ agent.log[i].status = "BLOCKED"
            /\ ~agent.log[i].pushed

(* C9: when the Deterministic Agent detects a CAPTCHA on a target the       *)
(* task's final status is CAPTCHA, when a target answers 403/429 it is      *)
(* BLOCKED, and no target is contacted a second time within the task.       *)
C9_ResistanceIsTaskStatus ==
    DeterministicFinished =>
        LET resistance == {agent.log[i].status : i \in DOMAIN agent.log}
                            \cap {"CAPTCHA", "BLOCKED"}
        IN  /\ resistance # {} => task.status \in resistance
            /\ Len(agent.log) <= TargetCount

(* C10: if on every target of a Deterministic task the page loads and none  *)
(* of the price tiers produces an amount, the task ends NOT_FOUND with an   *)
(* empty results list.                                                      *)
C10_MissIsNotFound ==
    (/\ DeterministicFinished
     /\ agent.phase = "closed"
     /\ Len(agent.log) = TargetCount
     /\ agent.log # << >>
     /\ \A i \in DOMAIN agent.log :
           agent.log[i].status = "OK" /\ ~agent.log[i].found)
        => task.status = "NOT_FOUND" /\ task.results = << >>

(* C11: when BrowserAgent.executeTask completes without a task-level        *)
(* exception, the returned status is OK if and only if the returned results *)
(* list is non-empty, and NOT_FOUND otherwise.                              *)
DeterministicReturned ==
    /\ agent.strategy = "Browser"
    /\ agent.phase = "closed"
    /\ ~IsNull(execResult)

SitesMode == HasParsedTask /\ ParsedTaskOf(task).sources.mode # "google"

PushedTargets == {i \in DOMAIN agent.log : agent.log[i].pushed}

ThrownTargets ==
    {i \in DOMAIN agent.log :
        IF SitesMode THEN ~agent.log[i].pushed ELSE agent.log[i].status = "THROWN"}

KnownTargets ==
    {i \in DOMAIN SitesOf(ParsedTaskOf(task)) :
        SitesOf(ParsedTaskOf(task))[i] \in KnownSites}

ExecuteTaskLeft == agent.strategy = "Browser" /\ pc # "executing"

C12_TargetsIsolated ==
    /\ (agent.strategy = "Browser" /\ SitesMode) =>
          /\ Len(agent.errors) = Cardinality(ThrownTargets)
          /\ Len(agent.results) = Cardinality(PushedTargets)
          /\ agent.phase # "failed" \/ agent.log = << >>
    /\ (ExecuteTaskLeft /\ SitesMode /\ agent.phase = "closed") =>
          /\ agent.idx = Len(SitesOf(ParsedTaskOf(task))) + 1
          /\ Len(agent.log) = Cardinality(KnownTargets)
          /\ ~IsNull(execResult) =>
                /\ Val(execResult).results = agent.results
                /\ Val(execResult).errors = agent.errors
    /\ (ExecuteTaskLeft /\ ~SitesMode /\ ThrownTargets # {} /\ ~IsNull(execResult)) =>
          /\ Len(Val(execResult).errors) = 1
          /\ Len(agent.log) = 1

C12_Witness ==
    /\ ExecuteTaskLeft
    /\ SitesMode
    /\ ~IsNull(execResult)
    /\ Len(agent.log) = 2
    /\ ~agent.log[1].pushed
    /\ agent.log[2].pushed
    /\ Len(Val(execResult).errors) = 1
    /\ Len(Val(execResult).results) = 1
    /\ Val(execResult).status = "OK"

(* C13: a site name that is not in the known-site table only produces a    *)
(* validation warning (the task stays valid and is executed), and           *)
(* BrowserAgent.executeTask still attempts extraction for that site: once   *)
(* its loop has run to the end every listed site has been visited.          *)
UnknownTargets ==
    {i \in DOMAIN SitesOf(ParsedTaskOf(task)) :
        SitesOf(ParsedTaskOf(task))[i] \notin KnownSites}

SpecificSitesMode ==
    HasParsedTask /\ ParsedTaskOf(task).sources.mode = "specific_sites"

C13_UnknownSiteAttempted ==
    (ExecuteTaskLeft /\ SpecificSitesMode /\ agent.phase = "closed") =>
        /\ validateTask(ParsedTaskOf(task)).valid
        /\ UnknownTargets # {} =>
              Len(validateTask(ParsedTaskOf(task)).warnings) > 0
        /\ Len(agent.log) = Len(SitesOf(ParsedTaskOf(task)))

(* C14: a planning-service call that fails with 429 or 503 is retried up to *)
(* 3 retries (at most 4 attempts per call): after up to three such failures *)
(* the call is still being attempted and a success completes the turn; a    *)
(* fourth consecutive failure propagates and executeTask returns            *)
(* success=false.                                                           *)
Is429or503(error) == error.status \in {429, 503}

C14_RetryCeiling ==
    /\ Len(cu.failures) <= MaxRetries + 1
    /\ cu.retries <= MaxRetries
    /\ cu.phase = "calling" => cu.retries = Len(cu.failures)
    /\ (cu.abortedBy = "planning"
          /\ \A i \in DOMAIN cu.failures : Is429or503(cu.failures[i]))
          => Len(cu.failures) = MaxRetries + 1
    /\ Len(cu.failures) = MaxRetries + 1 =>
          /\ cu.phase = "returned"
          /\ cu.abortedBy = "planning"
          /\ ~Val(cu.ret).success

C14_Witness ==
    /\ cu.phase = "loop"
    /\ cu.turn = 1
    /\ cu.roundTrips = 1
    /\ Len(cu.failures) = 3
    /\ \A i \in DOMAIN cu.failures : cu.failures[i].status = 429
    /\ cu.abortedBy = NULL

(* C15: a planning-service error that is neither a 429 nor a 503 response   *)
(* is never retried: it is the last attempt of its call, executeTask        *)
(* returns success=false, and the returned results are the candidates       *)
(* accumulated so far, in accumulation order.                               *)
C15_OtherErrorsAbort ==
    \A i \in DOMAIN cu.failures :
        ~Is429or503(cu.failures[i]) =>
            /\ i = Len(cu.failures)
            /\ cu.phase = "returned"
            /\ ~Val(cu.ret).success
            /\ Val(cu.ret).results = cu.extracted

(* C16: the loop of executeTask is bounded: the turn counter and the number *)
(* of consumed planning responses never exceed maxTurns, the reported turns *)
(* value lies in 0..maxTurns, and a started executeTask returns or throws   *)
(* provided every awaited call returns or throws.                           *)
C16_LoopBounded ==
    /\ [](/\ cu.turn \in 0..MaxTurns
          /\ cu.roundTrips <= cu.turn
          /\ ~IsNull(cu.ret) => Val(cu.ret).turns \in 0..MaxTurns)
    /\ (cu.phase = "init") ~> (cu.phase \in {"returned", "threw"})

C16_Witness ==
    /\ cu.phase = "returned"
    /\ Val(cu.ret).success
    /\ Val(cu.ret).turns = MaxTurns
    /\ cu.roundTrips = MaxTurns

(* C17: whenever executeTask has launched a browser session, the session    *)
(* is closed by the time executeTask returns or throws.                     *)
C17_SessionClosed ==
    cu.phase \in {"returned", "threw"} => cu.browser # "open"

(* the positions of a list whose (name, price, store) triple occurs at no *)
(* earlier position                                                       *)
Triple(r) == <<r.product_name, r.price, r.store_name>>

FirstOccurrences(list) ==
    {i \in DOMAIN list : \A j \in 1..(i - 1) : Triple(list[j]) # Triple(list[i])}

(* the elements of a list at a set of positions, in order *)
RECURSIVE Pick(_, _, _)
Pick(list, keep, i) ==
    IF i > Len(list) THEN << >>
    ELSE (IF i \in keep THEN <<list[i]>> ELSE << >>) \o Pick(list, keep, i + 1)

IsSubsequence(sub, list) ==
    \E keep \in SUBSET DOMAIN list : sub = Pick(list, keep, 1)

(* C18: deduplicateResults is idempotent, and its output is a subsequence of *)
(* its input.                                                               *)
C18_DedupIdempotent ==
    gOut.evaluated =>
        /\ gOut.twice = gOut.once
        /\ IsSubsequence(gOut.once, gIn)

C18_Witness ==
    /\ gOut.evaluated
    /\ Len(gIn) = 3
    /\ gIn[1] = gIn[2] /\ gIn[2] = gIn[3]
    /\ Len(gOut.once) = 1
    /\ gOut.twice = gOut.once

(* C19: the output of deduplicateResults holds exactly one entry for each   *)
(* distinct (product name, price, store name) triple of the input, its      *)
(* first occurrence: two candidates are merged only if the three components *)
(* are equal.                                                               *)
C19_DedupByTriple ==
    gOut.evaluated => gOut.once = Pick(gIn, FirstOccurrences(gIn), 1)

(* C20: denormalization gives the pixel nearest to n/1000 x dimension, a   *)
(* pixel inside the 1440x900 viewport for every n in 0..999, and for every  *)
(* pixel p of the viewport whose nearest normalized coordinate in 0..999 is *)
(* n, the pixel computed from n is within one pixel of p.                   *)
Abs(x) == IF x < 0 THEN -x ELSE x

Dimension(axis) == IF axis = "x" THEN SCREEN_WIDTH ELSE SCREEN_HEIGHT

(* n is the integer of 0..999 nearest to p * 1000 / dim *)
IsNearestNormalized(n, p, dim) ==
    \/ 2 * Abs(n * dim - 1000 * p) <= dim
    \/ n = 999 /\ 1000 * p >= 999 * dim

C20_DenormalizeRoundTrip ==
    gOut.evaluated =>
        LET dim == Dimension(gIn.axis)
        IN  /\ gOut.pixel \in 0..(dim - 1)
            /\ 2 * Abs(1000 * gOut.pixel - gIn.n * dim) <= 1000
            /\ \A p \in 0..(dim - 1) :
                  IsNearestNormalized(gIn.n, p, dim) => Abs(gOut.pixel - p) <= 1

C20_Witness ==
    /\ gOut.evaluated
    /\ gIn.axis = "x"
    /\ gIn.n = 999
    /\ gOut.pixel = SCREEN_WIDTH - 1
    /\ \E p \in 0..(SCREEN_WIDTH - 1) :
          IsNearestNormalized(gIn.n, p, SCREEN_WIDTH) /\ Abs(gOut.pixel - p) = 1

(* the indexes of the calls of the turn that do not ask for confirmation, *)
(* among the first n calls                                                *)
Dispatchable(n) ==
    {i \in 1..n : ~requiresConfirmation(gIn[i])}

Ascending(s) == \A a, b \in 1..Len(s) : a < b => s[a] < s[b]

(* C21: an action whose safety decision is require_confirmation is never   *)
(* handed to executeAction; the actions dispatched are the other actions   *)
(* of the turn, in their original order, and when the loop over the calls  *)
(* runs to its end every one of them has been dispatched.                  *)
C21_ConfirmationNeverDispatched ==
    gOut.phase \in {"loop", "done", "aborted"} =>
        /\ \A k \in 1..Len(gOut.dispatched) :
               ~requiresConfirmation(gIn[gOut.dispatched[k]])
        /\ Ascending(gOut.dispatched)
        /\ Range(gOut.dispatched) \subseteq Dispatchable(Len(gIn))
        /\ gOut.phase = "loop" =>
               Range(gOut.dispatched) = Dispatchable(gOut.i - 1)
        /\ gOut.phase = "done" =>
               Range(gOut.dispatched) = Dispatchable(Len(gIn))

(* a turn that ran to its end with an action skipped and a later one dispatched *)
C21_Witness ==
    /\ gOut.phase = "done"
    /\ \E i, j \in 1..Len(gIn) :
         /\ i < j
         /\ requiresConfirmation(gIn[i])
         /\ j \in Range(gOut.dispatched)

(* executeTask returned to processQuery with a non-empty results list *)
ExecutionGaveResults ==
    /\ execResult # << >>
    /\ Len(Val(execResult).results) > 0

(* C22: writeResults is called at most once for a task, and exactly when   *)
(* execution returned with a non-empty results list: never before that,    *)
(* never for a task that ends VALIDATION_FAILED or CLARIFICATION_NEEDED,   *)
(* never when execution produced no results.                               *)
C22_SinkOnceIffResults ==
    /\ hist.sinkCalls <= 1
    /\ pc \in {"writing", "done"} =>
           (hist.sinkCalls = 1 <=> ExecutionGaveResults)
    /\ pc \notin {"writing", "done"} => hist.sinkCalls = 0
    /\ (pc = "done" /\ task.status \in {"VALIDATION_FAILED", "CLARIFICATION_NEEDED"})
           => hist.sinkCalls = 0

(* a finished task that went through the Result Sink *)
C22_Witness ==
    /\ pc = "done"
    /\ hist.sinkCalls = 1
    /\ ExecutionGaveResults

(* C23: the task handed to writeResults is finalized: when writeResults    *)
(* records it, completedAt (and executionTimeMs, which finalizeTask sets   *)
(* in the same step) is already set, and the status it records is the      *)
(* status of the task response.                                            *)
C23_SinkSeesFinalizedTask ==
    hist.sink # << >> =>
        /\ Val(hist.sink).completedAt
        /\ pc = "done" => Val(hist.sink).status = Val(response).status

(* the rows of the CSV file, and the lines of the JSONL file, of one task *)
CsvRowsOf(id) == SelectSeq(srv.csv, LAMBDA x : ~x.header /\ x.task_id = id)

JsonlLinesOf(id) == SelectSeq(srv.jsonl, LAMBDA x : x.task_id = id)

UnitsOf(lines) == [i \in 1..Len(lines) |-> lines[i].unit]

ResultUnits(q) == [i \in 1..Len(q.results) |-> q.results[i].unit]

(* the writeCSV call, and the writeJSONL call, of the request has returned *)
CsvWritten(q) ==
    q.pc \in {"writeJSONL", "writeSummary", "written"} \/ q.id \in srv.summaries

JsonlWritten(q) ==
    q.pc \in {"writeSummary", "written"} \/ q.id \in srv.summaries

(* the request has not reached its writeCSV call *)
NotYetWriting(q) == q.pc \in {"new", "parsing", "executing", "writeCSV"}

(* C24: whatever the interleaving of the writeResults calls of concurrent  *)
(* tasks, the CSV file holds the header exactly once, as its first line,   *)
(* then one row per result of every task whose write to it returned, and   *)
(* the JSONL file one line per result, each task's rows in that task's     *)
(* result order; a task that has not written has no row in the files.      *)
C24_AppendSafe ==
    /\ srv.csv # << >> =>
          /\ srv.csv[1] = CsvHeader
          /\ \A i \in 2..Len(srv.csv) : ~srv.csv[i].header
    /\ \A r \in Requests :
          LET q == srv.req[r] IN
          /\ CsvWritten(q) => UnitsOf(CsvRowsOf(q.id)) = ResultUnits(q)
          /\ NotYetWriting(q) => CsvRowsOf(uuidv4(r)) = << >>
          /\ UnitsOf(CsvRowsOf(uuidv4(r))) \in {<< >>, ResultUnits(q)}
          /\ JsonlWritten(q) => UnitsOf(JsonlLinesOf(q.id)) = ResultUnits(q)
          /\ (NotYetWriting(q) \/ q.pc = "writeJSONL")
                => JsonlLinesOf(uuidv4(r)) = << >>
          /\ UnitsOf(JsonlLinesOf(uuidv4(r))) \in {<< >>, ResultUnits(q)}
    /\ Len(srv.csv) =
          (IF srv.csv = << >> THEN 0 ELSE 1) + Len(CsvRowsOf("uuid-1"))
                                             + Len(CsvRowsOf("uuid-2"))
    /\ Len(srv.jsonl) = Len(JsonlLinesOf("uuid-1")) + Len(JsonlLinesOf("uuid-2"))

(* two tasks wrote their results, interleaved: the task whose rows come    *)
(* first in the CSV file is not the one whose lines come first in the      *)
(* JSONL file                                                              *)
C24_Witness ==
    /\ \A r \in Requests : srv.req[r].id \in srv.summaries
    /\ Len(srv.csv) > 2
    /\ srv.csv[2].task_id # srv.jsonl[1].task_id

InFlight(q) == q.pc \notin {"new", "returned"}

(* C25: a task id is put into activeTasks once, at creation, and deleted   *)
(* once, at finalization; the registry holds exactly the tasks whose       *)
(* processQuery has started and not returned, so after the return          *)
(* getTaskStatus(id) is null and getActiveTasks() does not list the task.  *)
C25_RegistryLifecycle ==
    /\ activeTasks = {srv.req[r].id : r \in {x \in Requests : InFlight(srv.req[x])}}
    /\ \A r \in Requests :
          LET q == srv.req[r] IN
          /\ q.sets = (IF q.pc = "new" THEN 0 ELSE 1)
          /\ q.deletes = (IF q.pc = "returned" THEN 1 ELSE 0)
          /\ q.pc = "returned" =>
                /\ getTaskStatus(q.id) = << >>
                /\ [task_id |-> q.id] \notin getActiveTasks

(* one task has returned while the other is still in flight *)
C25_Witness ==
    \E r1, r2 \in Requests :
        /\ srv.req[r1].pc = "returned"
        /\ srv.req[r2].pc = "executing"
        /\ activeTasks = {srv.req[r2].id}

(* C26: the execution mode of a task is fixed by its own request: a        *)
(* request sent with dry_run = true is never executed by a live agent.     *)
C26_DryRunNeverLive ==
    \A r \in Requests :
        LET q == srv.req[r] IN
        (q.dry_run = <<TRUE>> /\ q.agent # << >>)
            => /\ Val(q.agent).strategy \in MockStrategies
               /\ Val(q.agent).strategy \notin LiveStrategies

(* C27: two tasks never use the same agent object or browser session, and  *)
(* within a task at most one target or action is in progress at a time.    *)
C27_SessionExclusive ==
    /\ \A r1, r2 \in Requests :
          (r1 # r2 /\ srv.req[r1].agent # << >> /\ srv.req[r2].agent # << >>)
              => Val(srv.req[r1].agent).id # Val(srv.req[r2].agent).id
    /\ \A u1, u2 \in srv.use : u1.agent = u2.agent => u1.task = u2.task
    /\ \A r \in Requests :
          /\ srv.req[r].open <= 1
          /\ srv.req[r].unit <= srv.req[r].targets

(* both tasks have a target or action in progress at the same moment *)
C27_Witness ==
    /\ \A r \in Requests : srv.req[r].open = 1
    /\ Cardinality(srv.use) = 2

(* C28: the results list of a task holds only results of its own agent,    *)
(* in the order the targets or actions were processed, however the         *)
(* concurrent tasks interleave.                                            *)
C28_ResultOrder ==
    \A r \in Requests :
        LET q == srv.req[r] IN
        /\ \A i \in 1..Len(q.results) :
              /\ q.results[i].agent = Val(q.agent).id
              /\ q.results[i].unit \in 1..q.unit
        /\ \A i, j \in 1..Len(q.results) :
              i < j => q.results[i].unit < q.results[j].unit

(* both tasks collected two results while the other one was executing *)
C28_Witness ==
    /\ \A r \in Requests :
          /\ srv.req[r].pc = "executing"
          /\ Len(srv.req[r].results) = 2

Present(field) == field # << >>

(* C29: in a task response, clarification_needed is present exactly when   *)
(* the status is CLARIFICATION_NEEDED; clarification_needed and errors are *)
(* never both present; results and summary are present only when the       *)
(* status is OK and the results list is non-empty, and always together.    *)
C29_ResponseShape ==
    response # << >> =>
        LET r == Val(response) IN
        /\ Present(r.clarification_needed) <=> r.status = "CLARIFICATION_NEEDED"
        /\ ~(Present(r.clarification_needed) /\ Present(r.errors))
        /\ Present(r.results) => (r.status = "OK" /\ Len(task.results) > 0)
        /\ Present(r.results) <=> Present(r.summary)

(* a response that asks for clarification *)
C29_Witness ==
    /\ response # << >>
    /\ Val(response).status = "CLARIFICATION_NEEDED"
    /\ Present(Val(response).clarification_needed)
    /\ ~Present(Val(response).results)

(* current_price is amount || 0: it is 0 when no price was extracted *)
PriceExtracted(x) == x.current_price # 0

(* C30: in a finished task whose parsed task has a max_price, a result's   *)
(* meets_criteria is true exactly when its current_price <= max_price;     *)
(* with no max_price it is true exactly when a price was extracted.        *)
C30_MeetsCriteriaDerived ==
    (pc = "done" /\ HasParsedTask) =>
        \A i \in 1..Len(task.results) :
            LET x == task.results[i]
                max_price == MaxPrice(ParsedTaskOf(task))
            IN  IF ~IsNull(max_price)
                THEN x.meets_criteria <=> x.current_price <= Val(max_price)
                ELSE x.meets_criteria <=> PriceExtracted(x)

(* C31: for every target of a Deterministic task, the Google-shopping      *)
(* target and each named site, the agent waited the site's configured      *)
(* minimum delay (rate_limit, or the default) before the first navigation  *)
(* to it.                                                                  *)
C31_RateGate ==
    agent.strategy = "Browser" =>
        \A i \in 1..Len(agent.log) :
            agent.log[i].waited >= rateLimitDelay(SiteConfigs[agent.log[i].site])

(* the parts of the text under evaluation, none for a null input *)
PartsIn == IF IsNull(gIn) THEN << >> ELSE Val(gIn)

(* part j is a currency marker next to the number i, spaces aside *)
NextTo(i, j) ==
    /\ i \in 1..Len(PartsIn) /\ j \in 1..Len(PartsIn)
    /\ PartsIn[i].kind = "number"
    /\ PartsIn[j].kind = "marker"
    /\ i # j
    /\ \A k \in 1..Len(PartsIn) :
          ((i < k /\ k < j) \/ (j < k /\ k < i)) => PartsIn[k].kind = "space"

(* the (amount, currency) pairs the text shows: a number and the marker    *)
(* attached to it                                                          *)
MarkedPrices ==
    {[amount |-> PartsIn[i].value, currency |-> PartsIn[j].currency] :
        <<i, j>> \in {x \in (1..Len(PartsIn)) \X (1..Len(PartsIn)) : NextTo(x[1], x[2])}}

HasDigit == \E i \in 1..Len(PartsIn) : PartsIn[i].kind = "number"

(* C32: for a text with a number next to a currency marker parsePrice      *)
(* returns that number as amount and one of EUR, USD, GBP as currency; for *)
(* a text with no digit, an empty text and null, amount is null.           *)
C32_ParsePriceMarked ==
    gOut.evaluated =>
        /\ MarkedPrices # {} =>
              /\ gOut.amount \in {Some(m.amount) : m \in MarkedPrices}
              /\ gOut.currency \in {"EUR", "USD", "GBP"}
        /\ ~HasDigit => gOut.amount = << >>

(* C40: the pair parsePrice returns is consistent: the currency is the one *)
(* whose marker is attached to the number returned as amount, also when    *)
(* the text holds markers of several currencies.                           *)
C40_ParsePriceConsistentPair ==
    (gOut.evaluated /\ \E m \in MarkedPrices : gOut.amount = Some(m.amount)) =>
        [amount |-> Val(gOut.amount), currency |-> gOut.currency] \in MarkedPrices

(* C33: status OK means price information was extracted: every task whose  *)
(* final status is OK has a non-empty results list, under both execution   *)
(* strategies.                                                             *)
C33_OkHasResults ==
    (pc = "done" /\ task.status = "OK") => Len(task.results) > 0

IsPrefixOf(s, t) == Len(s) <= Len(t) /\ SubSeq(t, 1, Len(s)) = s

ModelEntriesUpTo(h, i) == Cardinality({k \in 1..i : h[k].role = "model"})

(* the shape of the conversation: the goal entry first, then for every     *)
(* turn one model entry, followed by at most one function-response entry   *)
(* of the same turn                                                        *)
WellFormedHistory(h) ==
    /\ h # << >> => h[1] = GoalEntry
    /\ \A i \in 2..Len(h) :
          \/ /\ h[i].role = "model"
             /\ h[i].turn = ModelEntriesUpTo(h, i)
          \/ /\ h[i] = FunctionResponseEntry(h[i].turn)
             /\ h[i - 1].role = "model"
             /\ h[i - 1].turn = h[i].turn
    /\ Len(h) <= 1 + 2 * MaxTurns

(* C34: the conversation of the Directed Agent is an append-only log: its  *)
(* first entry is the user turn with the goal and the initial screenshot,  *)
(* each turn appends one model entry followed by at most one user          *)
(* function-response entry, no entry is ever removed or modified, and its  *)
(* length never exceeds 1 + 2 * maxTurns.                                  *)
C34_AppendOnlyLog ==
    [][ /\ IsPrefixOf(cu.history, cu.history')
        /\ Len(cu.history') <= Len(cu.history) + 2
        /\ WellFormedHistory(cu.history') ]_vars

(* a conversation that reached its largest length *)
C34_Witness ==
    /\ Len(cu.history) = 1 + 2 * MaxTurns
    /\ cu.phase = "returned"

(* C35: every action the model returned in a turn gets its outcome         *)
(* reported back: when the loop over the calls of a turn ends, the         *)
(* function responses are one per returned action, in action order.        *)
C35_EveryActionAnswered ==
    gOut.phase = "done" =>
        gOut.functionResponses = [i \in 1..Len(gIn) |-> i]

(* executeTask left through the turn limit: every turn was used and       *)
(* completed, and the model's last answer was not a text                   *)
LimitExhausted ==
    /\ cu.phase = "returned"
    /\ cu.turn = MaxTurns
    /\ cu.roundTrips = MaxTurns
    /\ cu.history[Len(cu.history)] # ModelEntry("text", cu.turn)

C37_NoDuplicateTriples ==
    cu.ret # << >> =>
        \A i, j \in 1..Len(Val(cu.ret).results) :
            i # j => Triple(Val(cu.ret).results[i]) # Triple(Val(cu.ret).results[j])

(* C38: introspection never shows a finished status: at every suspension  *)
(* point of processQuery, a task visible through getTaskStatus or          *)
(* getActiveTasks (a task in the registry) has status PENDING or           *)
(* IN_PROGRESS.                                                            *)
C38_IntrospectionInProgress ==
    task.id \in activeTasks => task.status \in {"PENDING", "IN_PROGRESS"}

(* C39: a task response of POST /api/monitor with status OK is sent with   *)
(* HTTP 200, VALIDATION_FAILED with 400, CLARIFICATION_NEEDED with 422,    *)
(* NOT_FOUND with 404 and any other status carrying errors with 500; a     *)
(* partial failure (status OK with recorded errors) is sent with 200.      *)
C39_HttpStatusMapping ==
    ~IsNull(response) =>
        LET result == Val(response)
            sent == httpStatus(result)
        IN  /\ result.status = "OK" => sent = 200
            /\ result.status = "VALIDATION_FAILED" => sent = 400
            /\ result.status = "CLARIFICATION_NEEDED" => sent = 422
            /\ result.status = "NOT_FOUND" => sent = 404
            /\ (/\ result.status \notin {"OK", "VALIDATION_FAILED",
                                         "CLARIFICATION_NEEDED", "NOT_FOUND"}
                /\ ~IsNull(result.errors)) => sent = 500

====
